---- MODULE Spec2Model ----
(***************************************************************************)
(* Model of the FluidBackground component (src/unnamed/part_000): the      *)
(* render-target pool (createFBO, createDoubleFBO, resizeFBO,              *)
(* resizeDoubleFBO, swap), the capability downgrade, the frame scheduler   *)
(* (updateFrame, calcDeltaTime, resizeCanvas) and the effect cleanup.      *)
(*                                                                         *)
(* JavaScript runs every handler to completion, so the effect body, one    *)
(* animation tick and the cleanup are one action each.  What a handler     *)
(* does inside (allocations, draws, swaps, calls) is kept in sim.trace,    *)
(* the log of the handler that ran last.                                   *)
(*                                                                         *)
(* Numbers: 1.0 / w is kept as the fraction [num |-> 1, den |-> w]; times  *)
(* are Date.now() milliseconds, dt is kept in microseconds (dt seconds     *)
(* times 10^6), so 0.016666 s is 16666 and 1/60 s is 1000000/60.           *)
(***************************************************************************)
EXTENDS Integers, Sequences, FiniteSets, TLC

VARIABLES
    mounted,            \* the effect body ran to its end and returned the cleanup
    fatal,              \* the effect body threw (no context)
    ext,                \* ext.supportLinearFiltering, as resolved by getWebGLContext
    config,             \* let config = { ...CONFIG }
    canvas,             \* canvas.width / canvas.height (backing store = drawing buffer)
    displayKeywords,    \* the list last passed to displayMaterial.setKeywords
    lastUpdateTime,     \* let lastUpdateTime = Date.now()
    animationFrameRef,  \* animationFrameRef.current (0 is null)
    pending,            \* handles of the animation-frame callbacks the browser holds
    nextHandle,         \* the next handle requestAnimationFrame returns
    tickCount,          \* number of updateFrame runs
    teardowns,          \* number of runs of the effect cleanup
    loading,            \* the loading state of the component
    sim,                \* the GL context state and the fields (see EmptySim)
    material,           \* displayMaterial (see NewMaterial)
    opCount,            \* direct calls of splat / step / render (numeric runs)
    app                 \* the state of App and the loader calls in flight (see AppInit)

vars == <<mounted, fatal, ext, config, canvas, displayKeywords, lastUpdateTime,
          animationFrameRef, pending, nextHandle, tickCount, teardowns, loading, sim,
          material, opCount, app>>

-----------------------------------------------------------------------------
(* Bounds of the model *)

MaxTicks == 2
MaxTeardowns == 2
\* calls of Material.setKeywords in a run of MaterialSpec
MaxCalls == 3
\* direct calls of splat / step / render in a numeric run
MaxOps == 2
\* the shorter side of the solver and dye grids in the numeric runs
GridSize == 3

(* Inputs of the environment *)

\* canvas.clientWidth / clientHeight of the full-viewport canvas
ClientSizes == { <<300, 150>>, <<151, 300>> }
\* window.devicePixelRatio, as <<numerator, denominator>>
PixelRatios == { <<1, 1>>, <<3, 2>> }
\* Date.now() - lastUpdateTime at a tick, in milliseconds
Gaps == { 16, 17, 60000 }
\* keyword lists handed to Material.setKeywords: the two the component passes
\* (none, SHADING) and others a caller of the class can pass
\* canvases of the numeric runs: a square one and one twice as wide as high
NumCanvases == { [width |-> 300, height |-> 300], [width |-> 300, height |-> 150] }
\* splat arguments: x and y in hundredths of the canvas, dx and dy in
\* hundredths (1500.0 and -1100.0), colours in hundredths
SplatPoints == { <<50, 50>>, <<17, 83>> }
SplatForces == { <<150000, 0>>, <<0, -110000>> }
SplatColors == { <<100, 0, 0>>, <<0, 50, 100>> }
\* dt of a direct step call, in microseconds
StepDts == { 0, 8000, 16666 }
\* the programs whose shader compile or program link fails, in degraded runs
FailureSets == { {"splat"}, {"copy", "display"},
                 {"copy", "clear", "splat", "advection", "divergence", "curl",
                  "vorticity", "pressure", "gradientSubtract", "display"} }
KeywordLists == { <<>>, <<"SHADING">>, <<"Aa">>, <<"BB">>, <<"C">>,
                  <<"Aa", "C">>, <<"C", "Aa">>, <<"SHADING", "BB">> }

-----------------------------------------------------------------------------
(* Program constants *)

\* the reals of CONFIG are in hundredths (see Unit): 0.99 is 99, 5 is 500
CONFIG == [ SIM_RESOLUTION |-> 128, DYE_RESOLUTION |-> 1440,
            DENSITY_DISSIPATION |-> 99, VELOCITY_DISSIPATION |-> 99,
            PRESSURE |-> 10, PRESSURE_ITERATIONS |-> 20, CURL |-> 500,
            SPLAT_RADIUS |-> 150, SHADING |-> TRUE ]

DowngradedDyeResolution == 256
MaxDtMicros == 16666

Min(a, b) == IF a < b THEN a ELSE b

Range(q) == { q[i] : i \in 1..Len(q) }

\* 1.0 / w
Recip(w) == [num |-> 1, den |-> w]

\* contents of a texture right after createFBO's gl.clear
Cleared == 0

\* blit(null): the default framebuffer
Screen == [texture |-> 0, fbo |-> 0, width |-> 0, height |-> 0]

Undefined == [obj |-> 0]

DoubleFields == {"dye", "velocity", "pressure"}
SingleFields == {"divergence", "curl"}

Programs == {"copy", "clear", "splat", "advection", "divergence", "curl",
             "vorticity", "pressure", "gradientSubtract", "display"}

\* the sampler uniforms the fragment shader of each program reads
Samplers(p) ==
    CASE p = "copy"             -> {"uTexture"}
      [] p = "clear"            -> {"uTexture"}
      [] p = "display"          -> {"uTexture"}
      [] p = "splat"            -> {"uTarget"}
      [] p = "advection"        -> {"uVelocity", "uSource"}
      [] p = "divergence"       -> {"uVelocity"}
      [] p = "curl"             -> {"uVelocity"}
      [] p = "vorticity"        -> {"uVelocity", "uCurl"}
      [] p = "pressure"         -> {"uPressure", "uDivergence"}
      [] p = "gradientSubtract" -> {"uPressure", "uVelocity"}

SamplerNames == {"uTexture", "uTarget", "uVelocity", "uSource", "uCurl",
                 "uPressure", "uDivergence"}

\* the float uniforms of the fragment shaders
FloatNames == {"value", "aspectRatio", "color", "point", "radius", "dt",
               "dissipation", "curl", "texelSize", "dyeTexelSize"}

\* the state of the GL context and of the closure variables that hold fields
EmptySim ==
    [ nextId    |-> 1,          \* next texture / framebuffer name
      nextObj   |-> 1,          \* next DoubleFBO object identity
      live      |-> {},         \* textures and framebuffers created and not deleted
      programs  |-> {},         \* programs linked and not deleted
      failed    |-> {},         \* programs whose compile or link failed
      content   |-> <<>>,       \* texture -> what it holds
      units     |-> [u \in 0..1 |-> 0],     \* texture bound to each texture unit
      uniforms  |-> [p \in Programs |-> [s \in SamplerNames |-> 0]],
      floats    |-> [p \in Programs |-> [n \in FloatNames |-> 0]],
      numeric   |-> FALSE,      \* textures hold texel values, not version stamps
      program   |-> "none",     \* gl.useProgram
      blend     |-> FALSE,      \* gl.enable / gl.disable(gl.BLEND)
      draws     |-> 0,          \* number of drawElements issued
      trace     |-> <<>>,       \* log of the handler that ran last
      dye       |-> Undefined,
      velocity  |-> Undefined,
      pressure  |-> Undefined,
      divergence |-> Undefined,
      curl      |-> Undefined ]

Log(g, e) == [g EXCEPT !.trace = Append(@, e)]

-----------------------------------------------------------------------------
(* GL calls *)

\* Program.bind / Material.bind: gl.useProgram of a program that did not link
\* is an INVALID_OPERATION error, which leaves the program in use as it was
Bind(g, p) == IF p \in g.failed THEN g ELSE [g EXCEPT !.program = p]

\* gl.uniform1f / 2f / 3f(<p>.uniforms.<name>, ...)
Uniformf(g, p, name, value) ==
    IF g.program = p THEN [g EXCEPT !.floats[p][name] = value] ELSE g

\* gl.uniform1i(<p>.uniforms.<name>, unit): sets a uniform of the program in use
Uniform1i(g, p, name, unit) ==
    IF g.program = p THEN [g EXCEPT !.uniforms[p][name] = unit] ELSE g

\* FBO.attach(id): gl.activeTexture(gl.TEXTURE0 + id); gl.bindTexture(texture)
Attach(g, fbo, id) == [g EXCEPT !.units[id] = fbo.texture]

ContentOf(g, t) == IF t \in DOMAIN g.content THEN g.content[t] ELSE Cleared

\* the textures the program in use samples in a draw
Sampled(g) == { g.units[g.uniforms[g.program][s]] : s \in Samplers(g.program) }

-----------------------------------------------------------------------------
(* Fragment shaders, lines 218-286.  When sim.numeric is set, a texture holds *)
(* its texels: [w, h, px] with px the w * h texels in row order and a texel   *)
(* the tuple <<x, y, z, a>> of its channels.  Reals are fixed-point numbers    *)
(* with Unit standing for 1.0, rounded to the nearest; dt is in microseconds.  *)
(* Every texture a pass samples has the dimensions of the target it writes    *)
(* (the solver and dye resolutions are equal in the numeric runs), so vL, vR,  *)
(* vT, vB are the centres of the neighbouring texels, clamped to the edge.     *)

Unit == 100

Abs(a) == IF a < 0 THEN -a ELSE a
Sign(a) == IF a < 0 THEN -1 ELSE 1
Max(a, b) == IF a < b THEN b ELSE a

\* a / b to the nearest integer, b > 0
RoundDiv(a, b) == Sign(a) * ((Abs(a) + b \div 2) \div b)

\* a * b / c to the nearest integer for b >= 0 and c > 0, without forming a * b
MulDiv(a, b, c) ==
    Sign(a) * ((Abs(a) \div c) * b + ((Abs(a) % c) * b + c \div 2) \div c)

\* a * dt for dt in microseconds
TimesDt(a, dt) == RoundDiv(MulDiv(a, dt, 1000), 1000)

\* the integer square root of n, between lo and hi
RECURSIVE IsqrtIn(_, _, _)
IsqrtIn(n, lo, hi) ==
    IF lo >= hi THEN lo
    ELSE LET mid == (lo + hi + 1) \div 2
         IN IF mid * mid <= n THEN IsqrtIn(n, mid, hi) ELSE IsqrtIn(n, lo, mid - 1)

Isqrt(n) == IsqrtIn(n, 0, 46340)

\* length(vec2(a, b)); large components are scaled down before squaring
Length(a, b) ==
    LET k == IF Max(Abs(a), Abs(b)) > 30000 THEN 10 ELSE 1
    IN k * Isqrt((a \div k) * (a \div k) + (b \div k) * (b \div k))

\* exp(-x) for x >= 0, x and the result in ten-thousandths: the series of
\* exp(-x / 64) to the fourth power of x / 64, squared six times
ExpScale == 10000

RECURSIVE SquareTimes(_, _)
SquareTimes(t, n) ==
    IF n = 0 THEN t ELSE SquareTimes(MulDiv(t, t, ExpScale), n - 1)

ExpNeg(x) ==
    IF x >= 12 * ExpScale THEN 0
    ELSE LET y == RoundDiv(x, 64)
             y2 == MulDiv(y, y, ExpScale)
             y3 == MulDiv(y2, y, ExpScale)
             y4 == MulDiv(y3, y, ExpScale)
         IN SquareTimes(ExpScale - y + RoundDiv(y2, 2) - RoundDiv(y3, 6)
                           + RoundDiv(y4, 24), 6)

\* the greatest common divisor of a and b, a > 0 or b > 0
RECURSIVE GCD(_, _)
GCD(a, b) == IF b = 0 THEN a ELSE GCD(b, a % b)

\* a * n / d to the nearest integer for a fraction n / d, reduced first
TimesFraction(a, n, d) == MulDiv(a, n \div GCD(n, d), d \div GCD(n, d))

ClampTo(v, lo, hi) == IF v < lo THEN lo ELSE IF v > hi THEN hi ELSE v

\* gl.clear with the clear colour (0, 0, 0, 0) on a w by h texture
ZeroTexel == <<0, 0, 0, 0>>
RECURSIVE Texels(_, _)
Texels(t, n) == IF n = 0 THEN <<>> ELSE <<t>> \o Texels(t, n - 1)

ZeroTexture(w, h) == [w |-> w, h |-> h, px |-> Texels(ZeroTexel, w * h)]

\* texture2D(t, centre of texel (x, y)) with CLAMP_TO_EDGE
Fetch(t, x, y) == t.px[ClampTo(y, 0, t.h - 1) * t.w + ClampTo(x, 0, t.w - 1) + 1]

\* the texture the sampler uniform s of the program in use reads
Tex(g, s) == ContentOf(g, g.units[g.uniforms[g.program][s]])

\* the value of the float uniform of the program in use
Uni(g, name) == g.floats[g.program][name]

\* mix(a, b, f) on one channel, f in 0 .. Unit
Mix(a, b, f) == a + MulDiv(b - a, f, Unit)

MixTexel(a, b, f) ==
    <<Mix(a[1], b[1], f), Mix(a[2], b[2], f), Mix(a[3], b[3], f), Mix(a[4], b[4], f)>>

\* bilerp (and, with it, LINEAR filtering): the texture at the position
\* (px, py), given in texels times Unit
bilerp(t, px, py) ==
    LET sx == px - Unit \div 2
        sy == py - Unit \div 2
        ix == sx \div Unit
        iy == sy \div Unit
        fx == sx - ix * Unit
        fy == sy - iy * Unit
    IN MixTexel(MixTexel(Fetch(t, ix, iy), Fetch(t, ix + 1, iy), fx),
                MixTexel(Fetch(t, ix, iy + 1), Fetch(t, ix + 1, iy + 1), fx), fy)

copyShader(g, w, h, cx, cy) == Fetch(Tex(g, "uTexture"), cx, cy)

\* a clear shader that adds value to the texel
clearShaderAdds(g, w, h, cx, cy) ==
    LET t == Fetch(Tex(g, "uTexture"), cx, cy)
    IN <<t[1] + Uni(g, "value"), t[2] + Uni(g, "value"),
         t[3] + Uni(g, "value"), t[4] + Uni(g, "value")>>

clearShader(g, w, h, cx, cy) ==
    LET t == Fetch(Tex(g, "uTexture"), cx, cy)
    IN <<MulDiv(t[1], Uni(g, "value"), Unit), MulDiv(t[2], Uni(g, "value"), Unit),
         MulDiv(t[3], Uni(g, "value"), Unit), MulDiv(t[4], Uni(g, "value"), Unit)>>

\* the display shader without SHADING
displayShader(g, w, h, cx, cy) ==
    LET c == Fetch(Tex(g, "uTexture"), cx, cy)
    IN <<c[1], c[2], c[3], Max(c[1], Max(c[2], c[3]))>>

\* p = vUv - point; p.x *= aspectRatio; exp(-dot(p, p) / radius): the weight
\* of the splat at texel (cx, cy), in ten-thousandths.  point is in Unit,
\* aspectRatio and radius are fractions <<numerator, denominator>>
SplatWeight(g, w, h, cx, cy) ==
    LET point == Uni(g, "point")
        aspect == Uni(g, "aspectRatio")
        radius == Uni(g, "radius")
        \* p in ten-thousandths
        pu == RoundDiv((2 * cx + 1) * ExpScale, 2 * w) - point[1] * (ExpScale \div Unit)
        pxa == TimesFraction(Abs(pu), aspect[1], aspect[2])
        py == RoundDiv((2 * cy + 1) * ExpScale, 2 * h) - point[2] * (ExpScale \div Unit)
        d2 == MulDiv(pxa, pxa, ExpScale) + MulDiv(Abs(py), Abs(py), ExpScale)
    IN ExpNeg(TimesFraction(d2, radius[2], radius[1]))

\* a splat shader that writes the splat and drops what the target held
splatShaderOverwrite(g, w, h, cx, cy) ==
    LET weight == SplatWeight(g, w, h, cx, cy)
        color == Uni(g, "color")
    IN <<MulDiv(color[1], weight, ExpScale),
         MulDiv(color[2], weight, ExpScale),
         MulDiv(color[3], weight, ExpScale),
         Unit>>

splatShader(g, w, h, cx, cy) ==
    LET weight == SplatWeight(g, w, h, cx, cy)
        color == Uni(g, "color")
        base == Fetch(Tex(g, "uTarget"), cx, cy)
    IN <<base[1] + MulDiv(color[1], weight, ExpScale),
         base[2] + MulDiv(color[2], weight, ExpScale),
         base[3] + MulDiv(color[3], weight, ExpScale),
         Unit>>

advectionShader(g, w, h, cx, cy) ==
    LET dt == Uni(g, "dt")
        vel == Fetch(Tex(g, "uVelocity"), cx, cy)
        px == cx * Unit + Unit \div 2 - TimesDt(vel[1], dt)
        py == cy * Unit + Unit \div 2 - TimesDt(vel[2], dt)
        result == bilerp(Tex(g, "uSource"), px, py)
        \* decay = 1.0 + dissipation * dt, in ten-thousandths
        decay == ExpScale + RoundDiv(Uni(g, "dissipation") * (dt \div 100), Unit)
    IN <<MulDiv(result[1], ExpScale, decay), MulDiv(result[2], ExpScale, decay),
         MulDiv(result[3], ExpScale, decay), MulDiv(result[4], ExpScale, decay)>>

divergenceShader(g, w, h, cx, cy) ==
    LET t == Tex(g, "uVelocity")
        C == Fetch(t, cx, cy)
        L == IF cx = 0 THEN -C[1] ELSE Fetch(t, cx - 1, cy)[1]
        R == IF cx = w - 1 THEN -C[1] ELSE Fetch(t, cx + 1, cy)[1]
        T == IF cy = h - 1 THEN -C[2] ELSE Fetch(t, cx, cy + 1)[2]
        B == IF cy = 0 THEN -C[2] ELSE Fetch(t, cx, cy - 1)[2]
    IN <<RoundDiv(R - L + T - B, 2), 0, 0, Unit>>

curlShader(g, w, h, cx, cy) ==
    LET t == Tex(g, "uVelocity")
        L == Fetch(t, cx - 1, cy)[2]
        R == Fetch(t, cx + 1, cy)[2]
        T == Fetch(t, cx, cy + 1)[1]
        B == Fetch(t, cx, cy - 1)[1]
    IN <<RoundDiv(R - L - T + B, 2), 0, 0, Unit>>

\* the velocity bound of the vorticity shader: 1000.0
VelocityLimit == 1000

\* the vorticity shader without min(max(velocity, -1000.0), 1000.0)
vorticityShaderUnclamped(g, w, h, cx, cy) ==
    LET t == Tex(g, "uCurl")
        L == Fetch(t, cx - 1, cy)[1]
        R == Fetch(t, cx + 1, cy)[1]
        T == Fetch(t, cx, cy + 1)[1]
        B == Fetch(t, cx, cy - 1)[1]
        C == Fetch(t, cx, cy)[1]
        fx == RoundDiv(Abs(T) - Abs(B), 2)
        fy == RoundDiv(Abs(R) - Abs(L), 2)
        len == Length(fx, fy)
        nx == RoundDiv(fx * Unit * Unit, len * Unit + 1)
        ny == RoundDiv(fy * Unit * Unit, len * Unit + 1)
        cc == MulDiv(C, Uni(g, "curl"), Unit)
        forcex == Sign(nx) * MulDiv(cc, Abs(nx), Unit)
        forcey == -1 * Sign(ny) * MulDiv(cc, Abs(ny), Unit)
        v == Fetch(Tex(g, "uVelocity"), cx, cy)
    IN <<v[1] + TimesDt(forcex, Uni(g, "dt")),
         v[2] + TimesDt(forcey, Uni(g, "dt")), 0, Unit>>

vorticityShader(g, w, h, cx, cy) ==
    LET t == Tex(g, "uCurl")
        L == Fetch(t, cx - 1, cy)[1]
        R == Fetch(t, cx + 1, cy)[1]
        T == Fetch(t, cx, cy + 1)[1]
        B == Fetch(t, cx, cy - 1)[1]
        C == Fetch(t, cx, cy)[1]
        \* force = 0.5 * vec2(abs(T) - abs(B), abs(R) - abs(L))
        fx == RoundDiv(Abs(T) - Abs(B), 2)
        fy == RoundDiv(Abs(R) - Abs(L), 2)
        \* force /= length(force) + 0.0001, and 0.0001 is 1 / (Unit * Unit)
        len == Length(fx, fy)
        nx == RoundDiv(fx * Unit * Unit, len * Unit + 1)
        ny == RoundDiv(fy * Unit * Unit, len * Unit + 1)
        \* force *= curl * C; force.y *= -1.0
        cc == MulDiv(C, Uni(g, "curl"), Unit)
        forcex == Sign(nx) * MulDiv(cc, Abs(nx), Unit)
        forcey == -1 * Sign(ny) * MulDiv(cc, Abs(ny), Unit)
        v == Fetch(Tex(g, "uVelocity"), cx, cy)
    IN <<ClampTo(v[1] + TimesDt(forcex, Uni(g, "dt")),
                 -VelocityLimit * Unit, VelocityLimit * Unit),
         ClampTo(v[2] + TimesDt(forcey, Uni(g, "dt")),
                 -VelocityLimit * Unit, VelocityLimit * Unit),
         0, Unit>>

pressureShader(g, w, h, cx, cy) ==
    LET t == Tex(g, "uPressure")
        L == Fetch(t, cx - 1, cy)[1]
        R == Fetch(t, cx + 1, cy)[1]
        T == Fetch(t, cx, cy + 1)[1]
        B == Fetch(t, cx, cy - 1)[1]
        divergence == Fetch(Tex(g, "uDivergence"), cx, cy)[1]
    IN <<RoundDiv(L + R + B + T - divergence, 4), 0, 0, Unit>>

gradientSubtractShader(g, w, h, cx, cy) ==
    LET t == Tex(g, "uPressure")
        L == Fetch(t, cx - 1, cy)[1]
        R == Fetch(t, cx + 1, cy)[1]
        T == Fetch(t, cx, cy + 1)[1]
        B == Fetch(t, cx, cy - 1)[1]
        v == Fetch(Tex(g, "uVelocity"), cx, cy)
    IN <<v[1] - (R - L), v[2] - (T - B), 0, Unit>>

\* gl_FragColor of the program in use at texel (cx, cy) of a w by h target
FragColor(g, w, h, cx, cy) ==
    CASE g.program = "copy"             -> copyShader(g, w, h, cx, cy)
      [] g.program = "clear"            -> clearShader(g, w, h, cx, cy)
      [] g.program = "display"          -> displayShader(g, w, h, cx, cy)
      [] g.program = "splat"            -> splatShader(g, w, h, cx, cy)
      [] g.program = "advection"        -> advectionShader(g, w, h, cx, cy)
      [] g.program = "divergence"       -> divergenceShader(g, w, h, cx, cy)
      [] g.program = "curl"             -> curlShader(g, w, h, cx, cy)
      [] g.program = "vorticity"        -> vorticityShader(g, w, h, cx, cy)
      [] g.program = "pressure"         -> pressureShader(g, w, h, cx, cy)
      [] g.program = "gradientSubtract" -> gradientSubtractShader(g, w, h, cx, cy)

\* gl.blendFunc(gl.ONE, gl.ONE_MINUS_SRC_ALPHA): source + destination * (1 - a)
Blend(src, dst) ==
    <<src[1] + MulDiv(dst[1], Unit - src[4], Unit),
      src[2] + MulDiv(dst[2], Unit - src[4], Unit),
      src[3] + MulDiv(dst[3], Unit - src[4], Unit),
      src[4] + MulDiv(dst[4], Unit - src[4], Unit)>>

\* the texel a draw leaves at (cx, cy) of the target, which held dst
Blended(on, src, dst) == IF on THEN Blend(src, dst) ELSE src

Pixel(g, w, h, cx, cy, dst) == Blended(g.blend, FragColor(g, w, h, cx, cy), dst)

\* texels k .. w * h of the target after the draw, k counted in row order
RECURSIVE Pixels(_, _, _)
Pixels(g, target, k) ==
    IF k > target.width * target.height THEN <<>>
    ELSE <<Pixel(g, target.width, target.height,
                 (k - 1) % target.width, (k - 1) \div target.width,
                 IF target.texture = 0 THEN ZeroTexel
                 ELSE ContentOf(g, target.texture).px[k])>>
         \o Pixels(g, target, k + 1)

\* what each sampler uniform of the program in use reads in a draw
SampledContents(g) ==
    [s \in Samplers(g.program) |->
        ContentOf(g, g.units[g.uniforms[g.program][s]])]

\* what a draw with the program in use writes: the copy program writes what
\* its one sampler holds, every other pass writes new values
Drawn(g, target) ==
    IF g.numeric
    THEN [w |-> target.width, h |-> target.height, px |-> Pixels(g, target, 1)]
    ELSE IF g.program = "copy"
    THEN ContentOf(g, g.units[g.uniforms["copy"]["uTexture"]])
    ELSE g.draws + 1

\* blit(target): bind the target's framebuffer (null: the screen) and draw
\* the draw call of blit: the target's texture takes the data drawn
drawElements(g, target, data) ==
    LET e == [op |-> "draw", program |-> g.program, target |-> target.texture,
              sampled |-> Sampled(g), read |-> SampledContents(g),
              data |-> data, blend |-> g.blend]
    IN [g EXCEPT !.content = IF target.texture = 0 THEN @
                              ELSE [t \in DOMAIN @ |->
                                      IF t = target.texture THEN data
                                      ELSE @[t]],
                 !.draws = @ + 1,
                 !.trace = Append(@, e)]

\* with no program in use gl.drawElements is an INVALID_OPERATION error
blit(g, target) ==
    IF g.program \notin Programs
    THEN Log(g, [op |-> "glError", call |-> "drawElements"])
    ELSE CHOOSE r \in { drawElements(g, target, data) :
                           data \in {Drawn(g, target)} } : TRUE

-----------------------------------------------------------------------------
(* Render-target pool *)

createFBO(g, w, h) ==
    LET id == g.nextId
        fbo == [texture |-> id, fbo |-> id, width |-> w, height |-> h,
                texelSizeX |-> Recip(w), texelSizeY |-> Recip(h)]
        e == [op |-> "alloc", texture |-> id, width |-> w, height |-> h]
    IN [g   |-> [g EXCEPT !.nextId = id + 1,
                          !.live = @ \cup {id},
                          !.units[0] = id,
                          !.content = @ @@ (id :> IF g.numeric THEN ZeroTexture(w, h)
                                                  ELSE Cleared),
                          !.trace = Append(@, e)],
        fbo |-> fbo]

createDoubleFBO(g, w, h) ==
    LET r1 == createFBO(g, w, h)
        r2 == createFBO(r1.g, w, h)
    IN [g      |-> [r2.g EXCEPT !.nextObj = @ + 1],
        target |-> [obj |-> g.nextObj, width |-> w, height |-> h,
                    texelSizeX |-> r1.fbo.texelSizeX,
                    texelSizeY |-> r1.fbo.texelSizeY,
                    fbo1 |-> r1.fbo, fbo2 |-> r2.fbo]]

\* get read() / get write()
Read(d) == d.fbo1
Write(d) == d.fbo2

\* swap written without the temporary: fbo1 = fbo2; fbo2 = fbo1
swapNoTemp(d) == [d EXCEPT !.fbo1 = d.fbo2, !.fbo2 = d.fbo2]

\* swap() { let temp = fbo1; fbo1 = fbo2; fbo2 = temp; }
swap(d) == [d EXCEPT !.fbo1 = d.fbo2, !.fbo2 = d.fbo1]

\* resizeFBO that allocates the new target and leaves out the copy pass
resizeFBONoCopy(g, target, w, h) ==
    LET r == createFBO(g, w, h)
    IN [g |-> r.g, fbo |-> r.fbo]

resizeFBO(g, target, w, h) ==
    LET r == createFBO(g, w, h)
        g1 == Bind(r.g, "copy")
        g2 == Uniform1i(Attach(g1, target, 0), "copy", "uTexture", 0)
    IN [g |-> blit(g2, r.fbo), fbo |-> r.fbo]

\* resizeDoubleFBO that forgets to refresh the cached texel sizes
resizeDoubleFBOStaleTexel(g, target, w, h) ==
    IF target.width = w /\ target.height = h
    THEN [g |-> g, target |-> target]
    ELSE LET r1 == resizeFBO(g, Read(target), w, h)
             r2 == createFBO(r1.g, w, h)
         IN [g      |-> r2.g,
             target |-> [target EXCEPT !.fbo1 = r1.fbo, !.fbo2 = r2.fbo,
                                       !.width = w, !.height = h]]

\* resizeDoubleFBO that resizes the read side and keeps the old write side
resizeDoubleFBOKeepWrite(g, target, w, h) ==
    IF target.width = w /\ target.height = h
    THEN [g |-> g, target |-> target]
    ELSE LET r1 == resizeFBO(g, Read(target), w, h)
         IN [g      |-> r1.g,
             target |-> [target EXCEPT !.fbo1 = r1.fbo,
                                       !.width = w, !.height = h,
                                       !.texelSizeX = Recip(w),
                                       !.texelSizeY = Recip(h)]]

\* resizeDoubleFBO without the early return for unchanged dimensions
resizeDoubleFBOAlways(g, target, w, h) ==
    LET r1 == resizeFBO(g, Read(target), w, h)
        r2 == createFBO(r1.g, w, h)
    IN [g      |-> r2.g,
        target |-> [target EXCEPT !.fbo1 = r1.fbo, !.fbo2 = r2.fbo,
                                  !.width = w, !.height = h,
                                  !.texelSizeX = Recip(w),
                                  !.texelSizeY = Recip(h)]]

\* target.read = r1, target.write = r2, and the new dimensions and texel sizes
Resized(r1, r2, target, w, h) ==
    [g      |-> r2.g,
     target |-> [target EXCEPT !.fbo1 = r1.fbo, !.fbo2 = r2.fbo,
                               !.width = w, !.height = h,
                               !.texelSizeX = Recip(w),
                               !.texelSizeY = Recip(h)]]

\* target.write = createFBO(w, h, ...), made after the read side r1
ResizedWrite(r1, target, w, h) == Resized(r1, createFBO(r1.g, w, h), target, w, h)

resizeDoubleFBO(g, target, w, h) ==
    IF target.width = w /\ target.height = h
    THEN [g |-> g, target |-> target]
    ELSE ResizedWrite(resizeFBO(g, Read(target), w, h), target, w, h)

\* Math.round(resolution * aspectRatio) with aspectRatio = big / small >= 1
getResolution(resolution, dbw, dbh) ==
    LET big == IF dbw < dbh THEN dbh ELSE dbw
        small == IF dbw < dbh THEN dbw ELSE dbh
        min == resolution
        max == (2 * resolution * big + small) \div (2 * small)
    IN IF dbw > dbh THEN [width |-> max, height |-> min]
                    ELSE [width |-> min, height |-> max]

\* Math.floor(input * pixelRatio), the ratio given as <<numerator, denominator>>
scaleByPixelRatio(input, pixelRatio) == (input * pixelRatio[1]) \div pixelRatio[2]

\* the log entry of one statement of initFramebuffers: what it calls
\* (createDoubleFBO while the variable is undefined, resizeDoubleFBO after),
\* on which object, with which members, and the dimensions before and asked for
CallEntry(target, field, res) ==
    IF target = Undefined
    THEN [op |-> "createDoubleFBO", field |-> field, obj |-> 0,
          read |-> 0, write |-> 0,
          from |-> <<0, 0>>, to |-> <<res.width, res.height>>]
    ELSE [op |-> "resizeDoubleFBO", field |-> field, obj |-> target.obj,
          read |-> Read(target).texture, write |-> Write(target).texture,
          from |-> <<target.width, target.height>>,
          to |-> <<res.width, res.height>>]

CreateEntry(op, field, res) ==
    [op |-> op, field |-> field, obj |-> 0, read |-> 0, write |-> 0,
     from |-> <<0, 0>>, to |-> <<res.width, res.height>>]

\* <field> = r, for the result r of createDoubleFBO / resizeDoubleFBO
AssignDouble(r, field) == [r.g EXCEPT ![field] = r.target]

\* <field> = r, for the result r of createFBO
AssignSingle(r, field) == [r.g EXCEPT ![field] = r.fbo]

\* if (field == null) field = createDoubleFBO(...)
\* else field = resizeDoubleFBO(field, ...)
CreateOrResize(g, field, res) ==
    AssignDouble(IF g[field] = Undefined
                 THEN createDoubleFBO(Log(g, CallEntry(g[field], field, res)),
                                      res.width, res.height)
                 ELSE resizeDoubleFBO(Log(g, CallEntry(g[field], field, res)),
                                      g[field], res.width, res.height),
                 field)

\* field = createFBO(...)
CreateSingle(g, field, res) ==
    AssignSingle(createFBO(Log(g, CreateEntry("createFBO", field, res)),
                           res.width, res.height),
                 field)

\* field = createDoubleFBO(...)
CreateDouble(g, field, res) ==
    AssignDouble(createDoubleFBO(Log(g, CreateEntry("createDoubleFBO", field, res)),
                                 res.width, res.height),
                 field)

initFramebuffers(g, cfg, cv) ==
    LET simRes == getResolution(cfg.SIM_RESOLUTION, cv.width, cv.height)
        dyeRes == getResolution(cfg.DYE_RESOLUTION, cv.width, cv.height)
    IN CreateDouble(
         CreateSingle(
           CreateSingle(
             CreateOrResize(
               CreateOrResize([g EXCEPT !.blend = FALSE], "dye", dyeRes),
               "velocity", simRes),
             "divergence", simRes),
           "curl", simRes),
         "pressure", simRes)

-----------------------------------------------------------------------------
(* Injector, solver and display: each function is the list of the GL calls  *)
(* and swaps it makes, in program order; Run makes them one after another.  *)

\* a swap that leaves the members of the field as they are
SwapFieldKeepsMembers(g, f) == Log(g, [op |-> "swap", field |-> f])

\* <field>.swap() on one of the closure variables dye, velocity, pressure
SwapField(g, f) ==
    Log([g EXCEPT ![f] = swap(@)], [op |-> "swap", field |-> f])

\* the render target an expression of the code names when it is evaluated:
\* <<"velocity", "read">> is velocity.read, <<"curl", "">> is curl,
\* <<"null", "">> is null (the screen)
Resolve(g, ref) ==
    IF ref[1] = "null" THEN Screen
    ELSE IF ref[2] = "read" THEN Read(g[ref[1]])
    ELSE IF ref[2] = "write" THEN Write(g[ref[1]])
    ELSE g[ref[1]]

\* the statements
UseProgram(p)        == [c |-> "bind", p |-> p]
SetSampler(p, name, ref, unit) ==
    \* gl.uniform1i(<p>.uniforms.<name>, <ref>.attach(unit))
    <<[c |-> "attach", ref |-> ref, unit |-> unit],
      [c |-> "uniform1i", p |-> p, name |-> name, unit |-> unit]>>
BlitTo(ref)          == [c |-> "blit", ref |-> ref]
SwapOf(f)            == [c |-> "swap", field |-> f]
SetBlend(on)         == [c |-> "blend", on |-> on]
\* gl.uniform1f / 2f / 3f(<p>.uniforms.<name>, value)
SetFloat(p, name, value) == [c |-> "uniformf", p |-> p, name |-> name, value |-> value]
\* gl.uniform2f(<p>.uniforms.<name>, <field>.texelSizeX, <field>.texelSizeY)
SetTexelSize(p, name, field) == [c |-> "texelSize", p |-> p, name |-> name, field |-> field]
InitFramebuffers(cfg, cv) == [c |-> "initFramebuffers", cfg |-> cfg, cv |-> cv]
Note(e)              == [c |-> "log", e |-> e]

\* one statement carried out on the GL state
Exec(g, cmd) ==
    CASE cmd.c = "bind"      -> Bind(g, cmd.p)
      [] cmd.c = "attach"    -> Attach(g, Resolve(g, cmd.ref), cmd.unit)
      [] cmd.c = "uniform1i" -> Uniform1i(g, cmd.p, cmd.name, cmd.unit)
      [] cmd.c = "blit"      -> blit(g, Resolve(g, cmd.ref))
      [] cmd.c = "swap"      -> SwapField(g, cmd.field)
      [] cmd.c = "blend"     -> [g EXCEPT !.blend = cmd.on]
      [] cmd.c = "log"       -> Log(g, cmd.e)
      [] cmd.c = "uniformf"  -> Uniformf(g, cmd.p, cmd.name, cmd.value)
      [] cmd.c = "texelSize" -> Uniformf(g, cmd.p, cmd.name,
                                         <<g[cmd.field].texelSizeX,
                                           g[cmd.field].texelSizeY>>)
      [] cmd.c = "initFramebuffers" -> initFramebuffers(g, cmd.cfg, cmd.cv)

\* the statements cmds[lo..hi] carried out in order, each on the state the
\* one before it left: cmds[lo..mid] first, then cmds[mid+1..hi] on its result
RECURSIVE Run(_, _, _, _)
Run(g, cmds, lo, hi) ==
    IF lo > hi THEN g
    ELSE IF lo = hi THEN Exec(g, cmds[lo])
    ELSE LET mid == (lo + hi) \div 2
         IN CHOOSE r \in { Run(g1, cmds, mid + 1, hi) :
                           g1 \in {Run(g, cmds, lo, mid)} } : TRUE

\* correctRadius(radius), the radius a fraction <<numerator, denominator>>
correctRadius(radius, cv) ==
    IF cv.width > cv.height
    THEN <<radius[1] * cv.width, radius[2] * cv.height>>
    ELSE radius

\* splat(x, y, dx, dy, color) on a canvas of the size cv
splat(x, y, dx, dy, color, cfg, cv) ==
    <<UseProgram("splat")>>
    \o SetSampler("splat", "uTarget", <<"velocity", "read">>, 0)
    \o <<SetFloat("splat", "aspectRatio", <<cv.width, cv.height>>),
          SetFloat("splat", "point", <<x, y>>),
          SetFloat("splat", "color", <<dx, dy, 0>>),
          SetFloat("splat", "radius",
                   correctRadius(<<cfg.SPLAT_RADIUS, Unit * 100>>, cv))>>
    \o <<BlitTo(<<"velocity", "write">>), SwapOf("velocity")>>
    \o SetSampler("splat", "uTarget", <<"dye", "read">>, 0)
    \o <<SetFloat("splat", "color", color)>>
    \o <<BlitTo(<<"dye", "write">>), SwapOf("dye")>>

\* the two splats of autoSplat; the positions, forces and the colour it
\* computes from its timers are left as the names of the code
autoSplat(cfg, dt, cv) ==
    <<Note([op |-> "autoSplat", dt |-> dt])>>
    \o splat("x1", "1.0 - y1", "dx1 * 0.2", "dy1 * 0.2",
             <<"color.r", "color.g", "color.b">>, cfg, cv)
    \o splat("x2", "1.0 - y2", "dx2 * 0.2", "dy2 * 0.2",
             <<"color.r", "color.g", "color.b">>, cfg, cv)

\* a Jacobi pass that relaxes the pressure in place, on the side it samples
JacobiPassInPlace ==
    SetSampler("pressure", "uPressure", <<"pressure", "read">>, 1)
    \o <<BlitTo(<<"pressure", "read">>), SwapOf("pressure")>>

\* the body of the loop of the pressure projection
JacobiPass ==
    SetSampler("pressure", "uPressure", <<"pressure", "read">>, 1)
    \o <<BlitTo(<<"pressure", "write">>), SwapOf("pressure")>>

\* the loop with the bound written i <= config.PRESSURE_ITERATIONS
RECURSIVE JacobiOffByOne(_, _)
JacobiOffByOne(i, n) ==
    IF i > n THEN <<>> ELSE JacobiPass \o JacobiOffByOne(i + 1, n)

\* for (let i = 0; i < config.PRESSURE_ITERATIONS; i++) { ... }
RECURSIVE Jacobi(_, _)
Jacobi(i, n) == IF i >= n THEN <<>> ELSE JacobiPass \o Jacobi(i + 1, n)

step(cfg, e, dt) ==
    <<SetBlend(FALSE), Note([op |-> "step", dt |-> dt])>>
    \* curl
    \o <<UseProgram("curl"), SetTexelSize("curl", "texelSize", "velocity")>>
    \o SetSampler("curl", "uVelocity", <<"velocity", "read">>, 0)
    \o <<BlitTo(<<"curl", "">>)>>
    \* vorticity confinement
    \o <<UseProgram("vorticity"), SetTexelSize("vorticity", "texelSize", "velocity")>>
    \o SetSampler("vorticity", "uVelocity", <<"velocity", "read">>, 0)
    \o SetSampler("vorticity", "uCurl", <<"curl", "">>, 1)
    \o <<SetFloat("vorticity", "curl", cfg.CURL), SetFloat("vorticity", "dt", dt)>>
    \o <<BlitTo(<<"velocity", "write">>), SwapOf("velocity")>>
    \* divergence
    \o <<UseProgram("divergence"), SetTexelSize("divergence", "texelSize", "velocity")>>
    \o SetSampler("divergence", "uVelocity", <<"velocity", "read">>, 0)
    \o <<BlitTo(<<"divergence", "">>)>>
    \* pressure decay
    \o <<UseProgram("clear")>>
    \o SetSampler("clear", "uTexture", <<"pressure", "read">>, 0)
    \o <<SetFloat("clear", "value", cfg.PRESSURE)>>
    \o <<BlitTo(<<"pressure", "write">>), SwapOf("pressure")>>
    \* pressure projection
    \o <<UseProgram("pressure"), SetTexelSize("pressure", "texelSize", "velocity")>>
    \o SetSampler("pressure", "uDivergence", <<"divergence", "">>, 0)
    \o Jacobi(0, cfg.PRESSURE_ITERATIONS)
    \* gradient subtraction
    \o <<UseProgram("gradientSubtract"),
          SetTexelSize("gradientSubtract", "texelSize", "velocity")>>
    \o SetSampler("gradientSubtract", "uPressure", <<"pressure", "read">>, 0)
    \o SetSampler("gradientSubtract", "uVelocity", <<"velocity", "read">>, 1)
    \o <<BlitTo(<<"velocity", "write">>), SwapOf("velocity")>>
    \* self-advection: let velocityId = velocity.read.attach(0), used twice
    \o <<UseProgram("advection"), SetTexelSize("advection", "texelSize", "velocity")>>
    \o (IF ~e.supportLinearFiltering
        THEN <<SetTexelSize("advection", "dyeTexelSize", "velocity")>> ELSE <<>>)
    \o SetSampler("advection", "uVelocity", <<"velocity", "read">>, 0)
    \o <<[c |-> "uniform1i", p |-> "advection", name |-> "uSource", unit |-> 0]>>
    \o <<SetFloat("advection", "dt", dt),
          SetFloat("advection", "dissipation", cfg.VELOCITY_DISSIPATION)>>
    \o <<BlitTo(<<"velocity", "write">>), SwapOf("velocity")>>
    \* dye advection
    \o (IF ~e.supportLinearFiltering
        THEN <<SetTexelSize("advection", "dyeTexelSize", "dye")>> ELSE <<>>)
    \o SetSampler("advection", "uVelocity", <<"velocity", "read">>, 0)
    \o SetSampler("advection", "uSource", <<"dye", "read">>, 1)
    \o <<SetFloat("advection", "dissipation", cfg.DENSITY_DISSIPATION)>>
    \o <<BlitTo(<<"dye", "write">>), SwapOf("dye")>>

\* drawDisplay(target), target given as in Resolve; a null target has the
\* dimensions of the drawing buffer, which are those of the canvas
drawDisplay(cfg, cv, target) ==
    <<UseProgram("display")>>
    \o (IF cfg.SHADING
        THEN <<SetFloat("display", "texelSize", <<Recip(cv.width), Recip(cv.height)>>)>>
        ELSE <<>>)
    \o SetSampler("display", "uTexture", <<"dye", "read">>, 0)
    \o <<BlitTo(target)>>

render(cfg, cv, target) == <<SetBlend(TRUE)>> \o drawDisplay(cfg, cv, target)

-----------------------------------------------------------------------------
(* Capability downgrade, keywords, scheduler *)

\* the downgrade that lowers the resolution and leaves shading on
DowngradeResolutionOnly(cfg, e) ==
    IF ~e.supportLinearFiltering
    THEN [cfg EXCEPT !.DYE_RESOLUTION = DowngradedDyeResolution]
    ELSE cfg

\* if (!ext.supportLinearFiltering) { config.DYE_RESOLUTION = 256; config.SHADING = false; }
Downgrade(cfg, e) ==
    IF ~e.supportLinearFiltering
    THEN [cfg EXCEPT !.DYE_RESOLUTION = DowngradedDyeResolution, !.SHADING = FALSE]
    ELSE cfg

\* the list updateKeywords passes to displayMaterial.setKeywords
updateKeywords(cfg) == IF cfg.SHADING THEN <<"SHADING">> ELSE <<>>

\* s.charCodeAt(i) for i = 0 .. s.length - 1, for the keywords of the inputs
CharCodes(s) ==
    CASE s = "SHADING" -> <<83, 72, 65, 68, 73, 78, 71>>
      [] s = "Aa"      -> <<65, 97>>
      [] s = "BB"      -> <<66, 66>>
      [] s = "C"       -> <<67>>
      [] s = ""        -> <<>>

\* a 32-bit integer kept as two 16-bit halves, so that no intermediate value
\* leaves the range of the checker's integers
Half == 65536

\* hash = (hash << 5) - hash + c; hash |= 0: 31 * hash + c modulo 2^32
HashStep(h, c) ==
    LET lo == h.lo * 31 + c
    IN [hi |-> (h.hi * 31 + lo \div Half) % Half, lo |-> lo % Half]

\* the value of the 32 bits as the signed integer hash |= 0 leaves
ToInt32(h) ==
    IF 2 * h.hi >= Half THEN (h.hi - Half) * Half + h.lo ELSE h.hi * Half + h.lo

RECURSIVE HashLoop(_, _, _)
HashLoop(h, codes, i) ==
    IF i > Len(codes) THEN h ELSE HashLoop(HashStep(h, codes[i]), codes, i + 1)

\* hashCode(s), lines 103-111
hashCode(s) ==
    IF Len(CharCodes(s)) = 0 THEN 0
    ELSE ToInt32(HashLoop([hi |-> 0, lo |-> 0], CharCodes(s), 1))

\* let hash = 0; for (...) hash += hashCode(keywords[i]): a sum of numbers,
\* not reduced to 32 bits
RECURSIVE KeywordsHash(_, _)
KeywordsHash(keywords, i) ==
    IF i > Len(keywords) THEN 0
    ELSE hashCode(keywords[i]) + KeywordsHash(keywords, i + 1)

\* new Material(vertexShader, fragmentShaderSource).  programs maps a hash to
\* a program, programs are numbered in the order they are linked, defines[p]
\* is the keyword list program p was compiled with; uniformsOf is the program
\* this.uniforms was read from by getUniforms, uniformReads counts the calls
\* of getUniforms; resolved and calls record the calls of setKeywords: the
\* keyword set of each call with the program it made active; seen holds the
\* keyword lists of the calls
NewMaterial ==
    [ programs      |-> <<>>,
      defines       |-> <<>>,
      activeProgram |-> 0,
      uniformsOf    |-> 0,
      uniformReads  |-> 0,
      resolved      |-> {},
      seen          |-> {},
      calls         |-> 0 ]

\* setKeywords without the return for a program that is already active
setKeywordsNoEarlyReturn(m, keywords) ==
    LET hash == KeywordsHash(keywords, 1)
        cached == hash \in DOMAIN m.programs
        program == IF cached THEN m.programs[hash] ELSE Len(m.defines) + 1
        m1 == IF cached THEN m
              ELSE [m EXCEPT !.programs = @ @@ (hash :> program),
                             !.defines = Append(@, keywords)]
    IN [m1 EXCEPT !.resolved = @ \cup {[keywords |-> Range(keywords),
                                        program |-> program]},
                  !.seen = @ \cup {keywords},
                  !.calls = @ + 1,
                  !.uniformsOf = program,
                  !.uniformReads = @ + 1,
                  !.activeProgram = program]

\* Material.setKeywords, lines 175-187
setKeywords(m, keywords) ==
    LET hash == KeywordsHash(keywords, 1)
        cached == hash \in DOMAIN m.programs
        program == IF cached THEN m.programs[hash] ELSE Len(m.defines) + 1
        m1 == IF cached THEN m
              ELSE [m EXCEPT !.programs = @ @@ (hash :> program),
                             !.defines = Append(@, keywords)]
        m2 == [m1 EXCEPT !.resolved = @ \cup {[keywords |-> Range(keywords),
                                               program |-> program]},
                         !.seen = @ \cup {keywords},
                         !.calls = @ + 1]
    IN IF program = m.activeProgram THEN m2
       ELSE [m2 EXCEPT !.uniformsOf = program,
                       !.uniformReads = @ + 1,
                       !.activeProgram = program]

\* calcDeltaTime without the Math.min
calcDeltaTimeUnclamped(now, last) == (now - last) * 1000

\* dt = Math.min((now - lastUpdateTime) / 1000, 0.016666), in microseconds
calcDeltaTime(now, last) == Min((now - last) * 1000, MaxDtMicros)

\* the canvas dimensions resizeCanvas computes
ScaledSize(client, pixelRatio) ==
    [width  |-> scaleByPixelRatio(client[1], pixelRatio),
     height |-> scaleByPixelRatio(client[2], pixelRatio)]

\* a cleanup that cancels nothing
CleanupNoCancel(ref, pend) == pend

\* a cleanup written as a pause / resume toggle of the loop
CleanupToggle(ref, pend) ==
    IF ref = 0 THEN pend
    ELSE IF ref \in pend THEN pend \ {ref} ELSE pend \cup {ref}

\* the effect cleanup: if (animationFrameRef.current) cancelAnimationFrame(...)
\* gives the callbacks the browser still holds
Cleanup(ref, pend) == IF ref # 0 THEN pend \ {ref} ELSE pend

\* updateFrame with the resize check moved behind the solver step
updateFrameResizeLast(cfg, e, dt, changed, size, handle) ==
    <<Note([op |-> "calcDeltaTime", dt |-> dt])>>
    \o autoSplat(cfg, dt, size)
    \o step(cfg, e, dt)
    \o <<Note([op |-> "resizeCanvas", changed |-> changed])>>
    \o (IF changed THEN <<InitFramebuffers(cfg, size)>> ELSE <<>>)
    \o render(cfg, size, <<"null", "">>)
    \o <<Note([op |-> "requestAnimationFrame", handle |-> handle])>>

\* updateFrame, lines 604-613: what one tick does to the GL state, given the
\* dt calcDeltaTime returned, what resizeCanvas returned, the canvas size it
\* left and the handle requestAnimationFrame returns
updateFrame(cfg, e, dt, changed, size, handle) ==
    <<Note([op |-> "calcDeltaTime", dt |-> dt]),
      Note([op |-> "resizeCanvas", changed |-> changed])>>
    \o (IF changed THEN <<InitFramebuffers(cfg, size)>> ELSE <<>>)
    \o autoSplat(cfg, dt, size)
    \o step(cfg, e, dt)
    \o render(cfg, size, <<"null", "">>)
    \o <<Note([op |-> "requestAnimationFrame", handle |-> handle])>>

\* a tick that requests a frame twice: the second request gets the next handle
RearmTwice(pend, h, handle) == (pend \ {h}) \cup {handle, handle + 1}

\* the callbacks the browser holds after a tick: callback h has run and the
\* tick has requested one frame, which got the handle given
Rearm(pend, h, handle) == (pend \ {h}) \cup {handle}

-----------------------------------------------------------------------------
(* App: the two data loaders, fetchDailyMix and the handleSubmit of          *)
(* ChargingWindowForm, and the state they set                                *)

\* null, as the value of a state or of a variable not yet assigned
Null == [kind |-> "null"]

\* const maxRetries = 3
maxRetries == 3

\* const delay = Math.pow(2, currentRetry - 1) * 1000, always 1000
delayFlat(currentRetry) == 1000

\* const delay = Math.pow(2, currentRetry - 1) * 1000
delay(currentRetry) == (2 ^ (currentRetry - 1)) * 1000

\* the durations the form holds when it is submitted (useState(3), then the
\* plus button)
Durations == {3, 4}

\* what a failed attempt throws: fetch rejects, or the response is not ok
Failures == {"Failed to fetch", "Blad serwera: 500"}

\* the body of an ok response, parsed by response.json()
Json(loader, duration) ==
    IF loader = "fetchDailyMix"
    THEN [kind |-> "EnergyMixDto[]", length |-> 3]
    ELSE [kind |-> "OptimalChargingWindow", durationHours |-> duration]

\* the message the loader puts into its error state
ErrorMessage(loader, message) ==
    IF loader = "fetchDailyMix"
    THEN [kind |-> "string", text |-> "Nie udalo sie zaladowac miksu", message |-> message]
    ELSE [kind |-> "string", text |-> "Nie udalo sie obliczyc okna", message |-> message]

\* the state of App the setters of a loader write
Setters(loader) ==
    IF loader = "fetchDailyMix"
    THEN [data |-> "dailyMixes", loading |-> "isMixLoading", error |-> "mixError"]
    ELSE [data |-> "optimalWindow", loading |-> "isWindowLoading", error |-> "windowError"]

\* the useState values of App, the loader calls made so far (calls) and the
\* calls waiting in setTimeout, in the order the timers were set (timers)
AppInit ==
    [dailyMixes      |-> [kind |-> "EnergyMixDto[]", length |-> 0],
     isMixLoading    |-> TRUE,
     mixError        |-> Null,
     optimalWindow   |-> Null,
     isWindowLoading |-> FALSE,
     windowError     |-> Null,
     calls           |-> <<>>,
     timers          |-> <<>>]

\* a loader call up to its first await: currentRetry = 0, the loop is entered
\* and the first fetch is issued; fetches counts the fetch calls and waits
\* lists the delays passed to setTimeout
NewCall(loader, duration) ==
    [loader |-> loader, duration |-> duration, currentRetry |-> 0, pc |-> "fetch",
     data |-> Null, err |-> Null, fetches |-> 1, waits |-> <<>>]

\* fetchDailyMix up to its first await
fetchDailyMix(a) ==
    [a EXCEPT !.isMixLoading = TRUE,
              !.mixError = Null,
              !.calls = Append(@, NewCall("fetchDailyMix", 0))]

\* handleSubmit up to its first await
handleSubmit(a, duration) ==
    [a EXCEPT !.isWindowLoading = TRUE,
              !.optimalWindow = Null,
              !.windowError = Null,
              !.calls = Append(@, NewCall("handleSubmit", duration))]

\* the try block of call i after the awaited fetch gave an ok response with
\* the body data
Resolved(a, i, data) ==
    [a EXCEPT ![Setters(a.calls[i].loader).data] = data,
              ![Setters(a.calls[i].loader).loading] = FALSE,
              !.calls[i] = [@ EXCEPT !.pc = "done", !.data = data]]

\* the catch block of call i, n being currentRetry after currentRetry++
Caught(a, i, n, message) ==
    IF n >= maxRetries
    THEN [a EXCEPT ![Setters(a.calls[i].loader).error] =
                        ErrorMessage(a.calls[i].loader, message),
                   ![Setters(a.calls[i].loader).loading] = FALSE,
                   !.calls[i] = [@ EXCEPT !.currentRetry = n, !.pc = "done",
                                          !.err = [kind |-> "Error",
                                                   message |-> message]]]
    ELSE [a EXCEPT !.calls[i] = [@ EXCEPT !.currentRetry = n, !.pc = "wait",
                                          !.waits = Append(@, delay(n))],
                   !.timers = Append(@, i)]

\* the attempt of call i failed with the message given
Rejected(a, i, message) == Caught(a, i, a.calls[i].currentRetry + 1, message)

\* the delay of the timer call i waits in
Waiting(a, i) == a.calls[i].waits[Len(a.calls[i].waits)]

\* the timer of call i may fire: no timer set before it with a delay not
\* longer than its own is still waiting
MayFire(a, i) ==
    /\ \E k \in 1..Len(a.timers) : a.timers[k] = i
    /\ \A k, l \in 1..Len(a.timers) :
          (a.timers[l] = i /\ k < l) => Waiting(a, a.timers[k]) > Waiting(a, i)

\* the timer of call i has fired: the loop condition is tested and the next
\* fetch is issued
TimedOut(a, i) ==
    [a EXCEPT !.calls[i] = IF @.currentRetry < maxRetries
                           THEN [@ EXCEPT !.pc = "fetch", !.fetches = @ + 1]
                           ELSE [@ EXCEPT !.pc = "done"],
              !.timers = SelectSeq(@, LAMBDA j : j # i)]

\* what OptimalWindowResult renders
OptimalWindowResult(window, isLoading, error) ==
    IF isLoading THEN [shows |-> "loading"]
    ELSE IF error # Null THEN [shows |-> "error", error |-> error]
    ELSE IF window = Null THEN [shows |-> "info"]
    ELSE [shows |-> "window", window |-> window]

-----------------------------------------------------------------------------
Init ==
    /\ mounted = FALSE
    /\ fatal = FALSE
    /\ ext = [supportLinearFiltering |-> FALSE]
    /\ config = CONFIG
    /\ canvas = [width |-> 300, height |-> 150]
    /\ displayKeywords = <<>>
    /\ lastUpdateTime = 0
    /\ animationFrameRef = 0
    /\ pending = {}
    /\ nextHandle = 1
    /\ tickCount = 0
    /\ teardowns = 0
    /\ loading = TRUE
    /\ sim = EmptySim
    /\ material = NewMaterial
    /\ opCount = 0
    /\ app = AppInit

\* compileShader and createProgram that throw when the compile or link fails
compileProgramsThrows(failed) ==
    [threw |-> failed # {}, programs |-> Programs \ failed, failed |-> failed]

\* compileShader and createProgram for the ten programs, lines 122-138 and
\* 289-298: a failed compile or link is logged with console.trace, the
\* shader and the program object are returned all the same
compilePrograms(failed) ==
    [threw |-> FALSE, programs |-> Programs, failed |-> failed]

\* the effect body when getContext gives a context (webgl2, webgl or
\* experimental-webgl); linear is whether the float-linear extension is
\* there, failed the programs whose compile or link fails
MountWith(linear, failed) ==
    /\ ~mounted /\ ~fatal
    /\ \E built \in {compilePrograms(failed)} :
          IF built.threw
          THEN /\ fatal' = TRUE
               /\ UNCHANGED <<mounted, ext, config, displayKeywords, material, sim,
                              loading, lastUpdateTime, animationFrameRef, pending,
                              nextHandle>>
          ELSE /\ LET e == [supportLinearFiltering |-> linear]
                      cfg == Downgrade(CONFIG, e)
                      g0 == [sim EXCEPT !.programs = built.programs,
                                        !.failed = built.failed]
                  IN /\ ext' = e
                     /\ config' = cfg
                     /\ displayKeywords' = updateKeywords(cfg)
                     /\ material' = setKeywords(material, updateKeywords(cfg))
                     /\ sim' = initFramebuffers(g0, cfg, canvas)
               /\ loading' = FALSE
               /\ lastUpdateTime' = 0
               /\ animationFrameRef' = nextHandle
               /\ pending' = pending \cup {nextHandle}
               /\ nextHandle' = nextHandle + 1
               /\ mounted' = TRUE
               /\ fatal' = fatal
    /\ UNCHANGED <<canvas, tickCount, teardowns, opCount, app>>

\* the effect body when every shader compiles and every program links
Mount(linear) == MountWith(linear, {})

\* an effect body that catches the failure of getWebGLContext and goes on to
\* request the first frame
MountNoContextCaught ==
    /\ ~mounted /\ ~fatal
    /\ fatal' = TRUE
    /\ animationFrameRef' = nextHandle
    /\ pending' = pending \cup {nextHandle}
    /\ nextHandle' = nextHandle + 1
    /\ UNCHANGED <<mounted, ext, config, canvas, displayKeywords, lastUpdateTime,
                   tickCount, teardowns, loading, sim, material, opCount, app>>

\* the effect body when getContext gives null three times: gl.getExtension
\* on null throws out of getWebGLContext
MountNoContext ==
    /\ ~mounted /\ ~fatal
    /\ fatal' = TRUE
    /\ UNCHANGED <<mounted, ext, config, canvas, displayKeywords, lastUpdateTime,
                   animationFrameRef, pending, nextHandle, tickCount, teardowns,
                   loading, sim, material, opCount, app>>

\* the browser runs the pending callback h: updateFrame, lines 604-613
UpdateFrame(h, gap, client, pixelRatio) ==
    /\ h \in pending
    /\ tickCount < MaxTicks
    /\ LET now == lastUpdateTime + gap
           dt == calcDeltaTime(now, lastUpdateTime)
           size == ScaledSize(client, pixelRatio)
           changed == canvas.width # size.width \/ canvas.height # size.height
       IN /\ lastUpdateTime' = now
          /\ canvas' = size
          /\ loading' = IF changed THEN FALSE ELSE loading
          /\ \E g0 \in {[sim EXCEPT !.trace = <<>>]} :
             \E cmds \in {updateFrame(config, ext, dt, changed, size, nextHandle)} :
                sim' = Run(g0, cmds, 1, Len(cmds))
    /\ animationFrameRef' = nextHandle
    /\ pending' = Rearm(pending, h, nextHandle)
    /\ nextHandle' = nextHandle + 1
    /\ tickCount' = tickCount + 1
    /\ UNCHANGED <<mounted, fatal, ext, config, displayKeywords, teardowns,
                   material, opCount, app>>

\* the cleanup the effect returned, lines 620-624
Teardown ==
    /\ mounted
    /\ teardowns < MaxTeardowns
    /\ pending' = Cleanup(animationFrameRef, pending)
    /\ teardowns' = teardowns + 1
    /\ UNCHANGED <<mounted, fatal, ext, config, canvas, displayKeywords,
                   lastUpdateTime, animationFrameRef, nextHandle, tickCount,
                   loading, sim, material, opCount, app>>

Next ==
    \/ \E linear \in BOOLEAN : Mount(linear)
    \/ MountNoContext
    \/ \E h \in pending, gap \in Gaps, client \in ClientSizes, r \in PixelRatios :
          UpdateFrame(h, gap, client, r)
    \/ Teardown

Spec == Init /\ [][Next]_vars

\* the component on a context where some shaders do not compile or some
\* programs do not link
DegradedNext ==
    \/ \E linear \in BOOLEAN, failed \in FailureSets : MountWith(linear, failed)
    \/ \E h \in pending, gap \in Gaps, client \in ClientSizes, r \in PixelRatios :
          UpdateFrame(h, gap, client, r)
    \/ Teardown

DegradedSpec == Init /\ [][DegradedNext]_vars

\* a caller of the Material class: displayMaterial.setKeywords(keywords)
SetKeywords(keywords) ==
    /\ material.calls < MaxCalls
    /\ material' = setKeywords(material, keywords)
    /\ displayKeywords' = keywords
    /\ UNCHANGED <<mounted, fatal, ext, config, canvas, lastUpdateTime,
                   animationFrameRef, pending, nextHandle, tickCount, teardowns,
                   loading, sim, opCount, app>>

MaterialNext == \E keywords \in KeywordLists : SetKeywords(keywords)

\* the Material class under any sequence of setKeywords calls
MaterialSpec == Init /\ [][MaterialNext]_vars

-----------------------------------------------------------------------------
(* The injector, the solver and the display on texel values: splat, step   *)
(* and render called on a mounted simulation whose grids are small enough  *)
(* to enumerate.                                                            *)

NumCONFIG == [CONFIG EXCEPT !.SIM_RESOLUTION = GridSize, !.DYE_RESOLUTION = GridSize]

\* the state the effect body leaves on a context with linear filtering
NumInit ==
    /\ mounted = TRUE
    /\ fatal = FALSE
    /\ ext = [supportLinearFiltering |-> TRUE]
    /\ config = Downgrade(NumCONFIG, [supportLinearFiltering |-> TRUE])
    /\ canvas \in NumCanvases
    /\ displayKeywords = updateKeywords(NumCONFIG)
    /\ lastUpdateTime = 0
    /\ animationFrameRef = 1
    /\ pending = {1}
    /\ nextHandle = 2
    /\ tickCount = 0
    /\ teardowns = 0
    /\ loading = FALSE
    /\ sim = [initFramebuffers([EmptySim EXCEPT !.numeric = TRUE,
                                               !.programs = Programs],
                               NumCONFIG, canvas) EXCEPT !.trace = <<>>]
    /\ material = setKeywords(NewMaterial, updateKeywords(NumCONFIG))
    /\ opCount = 0
    /\ app = AppInit

\* a call: the statements cmds carried out on the simulation, logged after
\* the entry that names the call
Call(entry, cmds) ==
    /\ opCount < MaxOps
    /\ \E g0 \in {[sim EXCEPT !.trace = <<entry>>]} :
          sim' = Run(g0, cmds, 1, Len(cmds))
    /\ opCount' = opCount + 1
    /\ UNCHANGED <<mounted, fatal, ext, config, canvas, displayKeywords,
                   lastUpdateTime, animationFrameRef, pending, nextHandle,
                   tickCount, teardowns, loading, material, app>>

\* splat(x, y, dx, dy, color), lines 424-438
Splat(x, y, dx, dy, color) ==
    \E cmds \in {splat(x, y, dx, dy, color, config, canvas)} :
       Call([op |-> "splat", x |-> x, y |-> y, dx |-> dx, dy |-> dy,
             color |-> color], cmds)

\* step(dt), lines 524-587
Step(dt) ==
    \E cmds \in {step(config, ext, dt)} : Call([op |-> "stepCall", dt |-> dt], cmds)

\* render(null), lines 589-593
Render ==
    \E cmds \in {render(config, canvas, <<"null", "">>)} :
       Call([op |-> "render"], cmds)

NumNext ==
    \/ \E point \in SplatPoints, force \in SplatForces, color \in SplatColors :
          Splat(point[1], point[2], force[1], force[2], color)
    \/ \E dt \in StepDts : Step(dt)
    \/ Render

NumSpec == NumInit /\ [][NumNext]_vars

-----------------------------------------------------------------------------
(* Vocabulary of the properties *)

Trace == sim.trace
TraceIdx == 1..Len(Trace)

\* 1/n as a fraction: t is the reciprocal of n
IsRecip(t, n) == n # 0 /\ t.den # 0 /\ t.num * n = t.den

TexelOk(t) == IsRecip(t.texelSizeX, t.width) /\ IsRecip(t.texelSizeY, t.height)

\* p/q = r/s
SameFraction(a, b) == a.num * b.den = b.num * a.den

\* every render target and double render target the closure variables hold
Targets ==
    IF ~mounted THEN {}
    ELSE { [width |-> t.width, height |-> t.height,
            texelSizeX |-> t.texelSizeX, texelSizeY |-> t.texelSizeY] :
           t \in { sim[f] : f \in DoubleFields \cup SingleFields }
                 \cup { Read(sim[f]) : f \in DoubleFields }
                 \cup { Write(sim[f]) : f \in DoubleFields } }

\* the last handler called resizeDoubleFBO with other / with the same dimensions
ResizedReally(f) ==
    \E i \in TraceIdx : /\ Trace[i].op = "resizeDoubleFBO"
                        /\ Trace[i].field = f
                        /\ Trace[i].from # Trace[i].to
ResizedSame(f) ==
    \E i \in TraceIdx : /\ Trace[i].op = "resizeDoubleFBO"
                        /\ Trace[i].field = f
                        /\ Trace[i].from = Trace[i].to

-----------------------------------------------------------------------------
(* C1: every render target and every double render target has              *)
(* texelSizeX = 1/width and texelSizeY = 1/height for its current width and *)
(* height, after creation, resize and swap; so targets of equal dimensions  *)
(* have equal texel sizes.                                                  *)
C1_TexelSizeDerived ==
    /\ \A t \in Targets : TexelOk(t)
    /\ \A a, b \in Targets :
          /\ a.width = b.width => SameFraction(a.texelSizeX, b.texelSizeX)
          /\ a.height = b.height => SameFraction(a.texelSizeY, b.texelSizeY)
          /\ a.width # b.width => ~SameFraction(a.texelSizeX, b.texelSizeX)

\* a tick resized dye and velocity to other dimensions, and swaps followed
C1_Witness ==
    /\ tickCount >= 1
    /\ ResizedReally("dye") /\ ResizedReally("velocity")
    /\ sim.dye.width # sim.velocity.width
    /\ \E i \in TraceIdx : Trace[i].op = "swap"

(* C2: the read and the write member of velocity, dye and pressure are two  *)
(* different textures and framebuffers and have the same dimensions, in     *)
(* every state reached through creation, resize, inject and step.           *)
C2_ReadWriteDistinct ==
    mounted =>
      \A f \in DoubleFields :
         /\ Read(sim[f]).texture # Write(sim[f]).texture
         /\ Read(sim[f]).fbo # Write(sim[f]).fbo
         /\ Read(sim[f]).width = Write(sim[f]).width
         /\ Read(sim[f]).height = Write(sim[f]).height
         /\ Read(sim[f]).width = sim[f].width
         /\ Read(sim[f]).height = sim[f].height

\* a tick with a real resize, two injections and a step has run
C2_Witness ==
    /\ tickCount >= 2
    /\ ResizedReally("velocity")
    /\ \E i \in TraceIdx : Trace[i].op = "draw" /\ Trace[i].program = "splat"
    /\ \E i \in TraceIdx : Trace[i].op = "draw" /\ Trace[i].program = "advection"

(* C3: once the effect cleanup has run, updateFrame never runs again: no    *)
(* callback stays pending, and no later step issues a draw, logs a pass or  *)
(* requests an animation frame, wherever in the tick sequence the cleanup   *)
(* came.                                                                    *)
C3_NoTickAfterTeardown ==
    /\ [](teardowns >= 1 => pending = {})
    /\ [][teardowns >= 1 =>
             /\ tickCount' = tickCount
             /\ sim'.draws = sim.draws
             /\ sim'.trace = sim.trace
             /\ nextHandle' = nextHandle
             /\ pending' = {}]_vars

\* the cleanup ran after a tick that had re-armed the loop
C3_Witness ==
    /\ teardowns >= 1
    /\ tickCount >= 1
    /\ animationFrameRef = nextHandle - 1
    /\ \E i \in TraceIdx : Trace[i].op = "requestAnimationFrame"
    /\ pending = {}

(* C4: the dt handed to autoSplat and to step is never more than 1/60 s     *)
(* (dt microseconds times 60 is at most 10^6), whatever the clock gap.      *)
C4_DtAtMostOneSixtieth ==
    \A i \in TraceIdx :
        Trace[i].op \in {"autoSplat", "step"} => Trace[i].dt * 60 <= 1000000

\* a tick came 60 s after the effect ran and its step got the clamped dt
C4_Witness ==
    /\ tickCount = 1
    /\ lastUpdateTime = 60000
    /\ \E i \in TraceIdx : Trace[i].op = "step" /\ Trace[i].dt = 16666
    /\ \E i \in TraceIdx : Trace[i].op = "autoSplat" /\ Trace[i].dt = 16666

\* number of swaps of field f the last handler made
Swaps(f) == Cardinality({ i \in TraceIdx : Trace[i].op = "swap" /\ Trace[i].field = f })

\* the step is a tick in which resizeCanvas found the dimensions unchanged
TickWithoutResize ==
    /\ tickCount' = tickCount + 1
    /\ sim'.trace[2].op = "resizeCanvas"
    /\ ~sim'.trace[2].changed

(* C5: swap applied twice gives back the read and write members it started  *)
(* from; one swap exchanges them and changes neither the members (texture,  *)
(* framebuffer, dimensions, texel sizes), nor the target's dimensions, nor   *)
(* the contents of any texture.  So a tick without resize, which swaps each *)
(* double target an odd number of times, ends with exactly the members of   *)
(* each exchanged.                                                          *)
C5_SwapInvolution ==
    /\ [](mounted =>
            \A f \in DoubleFields :
               LET d == sim[f]
               IN /\ swap(swap(d)) = d
                  /\ Read(swap(d)) = Write(d)
                  /\ Write(swap(d)) = Read(d)
                  /\ swap(d).width = d.width /\ swap(d).height = d.height
                  /\ swap(d).obj = d.obj
                  /\ SwapField(sim, f).content = sim.content
                  /\ SwapField(SwapField(sim, f), f)[f] = d)
    /\ [][TickWithoutResize =>
             \A f \in DoubleFields :
                /\ Read(sim'[f]).texture = Write(sim[f]).texture
                /\ Write(sim'[f]).texture = Read(sim[f]).texture
                /\ sim'[f] = swap(sim[f])]_vars

\* a tick without resize has run: five swaps of velocity, three of dye
C5_Witness ==
    /\ tickCount >= 1
    /\ Trace[2].op = "resizeCanvas" /\ ~Trace[2].changed
    /\ Swaps("velocity") = 5
    /\ Swaps("dye") = 3
    /\ Swaps("pressure") = 1 + CONFIG.PRESSURE_ITERATIONS

(* C6: resizeDoubleFBO with the target's current width and height gives back *)
(* the same target and the same GL state: nothing allocated, nothing drawn,  *)
(* no member, dimension or texel size changed.  In the log of a handler, a   *)
(* same-size resizeDoubleFBO call is followed by no allocation and no draw   *)
(* before the next statement, and the variable still holds that object.      *)
C6_SameSizeResizeIsNoop ==
    /\ mounted =>
         \A f \in DoubleFields :
            LET r == resizeDoubleFBO(sim, sim[f], sim[f].width, sim[f].height)
            IN /\ r.target = sim[f]
               /\ r.g = sim
               /\ r.g.nextId = sim.nextId /\ r.g.draws = sim.draws
    /\ \A i \in TraceIdx :
         (Trace[i].op = "resizeDoubleFBO" /\ Trace[i].from = Trace[i].to) =>
            /\ i < Len(Trace)
            /\ Trace[i + 1].op \notin {"alloc", "draw"}
            /\ sim[Trace[i].field].obj = Trace[i].obj
            /\ sim[Trace[i].field].width = Trace[i].to[1]
            /\ sim[Trace[i].field].height = Trace[i].to[2]

\* the canvas changed size at the same aspect ratio: initFramebuffers called
\* resizeDoubleFBO on dye and velocity with their current dimensions
C6_Witness ==
    /\ tickCount >= 1
    /\ Trace[2].op = "resizeCanvas" /\ Trace[2].changed
    /\ ResizedSame("dye") /\ ResizedSame("velocity")

\* dimensions other than the current ones of the double target d
OtherDims(d) == { <<d.height, d.width + 1>>, <<d.width + 1, d.height>>,
                  <<2 * d.width, 2 * d.height>> }

(* C7: resizeDoubleFBO to other dimensions makes the new read side hold what *)
(* the previous read side held (one copy-program draw that samples the old   *)
(* read texture into a new texture), and makes the write side a newly        *)
(* allocated cleared texture, different from the new read side and from both *)
(* previous members; the previous members keep their contents.               *)
C7_ResizeCopiesReadFreshWrite ==
    /\ mounted =>
         \A f \in DoubleFields : \A dim \in OtherDims(sim[f]) :
            LET old == sim[f]
                r == resizeDoubleFBO(sim, old, dim[1], dim[2])
                new == r.target
                n == Len(sim.trace)
            IN /\ ContentOf(r.g, Read(new).texture) = ContentOf(sim, Read(old).texture)
               /\ ContentOf(r.g, Write(new).texture) = Cleared
               /\ Write(new).texture \notin
                     {Read(new).texture, Read(old).texture, Write(old).texture}
               /\ Read(new).texture \notin {Read(old).texture, Write(old).texture}
               /\ {Read(new).texture, Write(new).texture} \cap sim.live = {}
               /\ {Read(new).texture, Write(new).texture} \subseteq r.g.live
               /\ \A t \in sim.live : ContentOf(r.g, t) = ContentOf(sim, t)
               /\ <<Read(new).width, Read(new).height>> = dim
               /\ <<Write(new).width, Write(new).height>> = dim
               /\ Len(r.g.trace) = n + 3
               /\ r.g.trace[n + 1].op = "alloc"
               /\ r.g.trace[n + 1].texture = Read(new).texture
               /\ r.g.trace[n + 2].op = "draw"
               /\ r.g.trace[n + 2].program = "copy"
               /\ r.g.trace[n + 2].target = Read(new).texture
               /\ r.g.trace[n + 2].sampled = {Read(old).texture}
               /\ r.g.trace[n + 3].op = "alloc"
               /\ r.g.trace[n + 3].texture = Write(new).texture
    /\ \A i \in TraceIdx :
         (Trace[i].op = "resizeDoubleFBO" /\ Trace[i].from # Trace[i].to) =>
            /\ i + 3 <= Len(Trace)
            /\ Trace[i + 1].op = "alloc"
            /\ Trace[i + 2].op = "draw"
            /\ Trace[i + 2].program = "copy"
            /\ Trace[i + 2].target = Trace[i + 1].texture
            /\ Trace[i + 2].sampled = {Trace[i].read}
            /\ ~Trace[i + 2].blend
            /\ Trace[i + 3].op = "alloc"
            /\ Trace[i + 3].texture \notin
                  {Trace[i + 1].texture, Trace[i].read, Trace[i].write}

\* a tick resized dye, and the copy carried over contents an earlier tick drew
C7_Witness ==
    /\ tickCount >= 2
    /\ ResizedReally("dye")
    /\ \E i \in TraceIdx : /\ Trace[i].op = "draw"
                           /\ Trace[i].program = "copy"
                           /\ Trace[i].data # Cleared

(* C8: after the effect cleanup has run, the GPU resources the component    *)
(* created are released: no texture or framebuffer and no program is left.  *)
C8_TeardownReleasesResources ==
    teardowns >= 1 => (sim.live = {} /\ sim.programs = {})

(* C9: running the cleanup a second time changes nothing: no callback       *)
(* becomes pending, no frame is requested, no pass is issued, no error is    *)
(* raised, and every part of the state is as the first cleanup left it.      *)
C9_SecondTeardownIsNoop ==
    [][(teardowns >= 1 /\ teardowns' = teardowns + 1) =>
          /\ pending' = pending /\ pending' = {}
          /\ fatal' = fatal /\ ~fatal'
          /\ UNCHANGED <<mounted, ext, config, canvas, displayKeywords,
                         lastUpdateTime, animationFrameRef, nextHandle,
                         tickCount, loading, sim, material, opCount>>]_vars

\* the cleanup has run twice, after a tick
C9_Witness ==
    /\ teardowns = 2
    /\ tickCount >= 1
    /\ pending = {}
    /\ ~fatal

(* C10: when linear filtering of float textures is reported unsupported, the *)
(* configured dye resolution is 256 for the whole run (and the dye target is *)
(* built at it) and the keyword list given to the display material never     *)
(* holds SHADING; when it is supported, the dye resolution stays 1440 and    *)
(* shading stays on with SHADING in the list.                                *)
C10_LinearFilteringDowngrade ==
    mounted =>
      /\ Min(sim.dye.width, sim.dye.height) = config.DYE_RESOLUTION
      /\ IF ~ext.supportLinearFiltering
         THEN /\ config.DYE_RESOLUTION = 256
              /\ ~config.SHADING
              /\ "SHADING" \notin Range(displayKeywords)
         ELSE /\ config.DYE_RESOLUTION = 1440
              /\ config.SHADING
              /\ displayKeywords = <<"SHADING">>

\* a run without linear filtering that has gone through a tick with a resize
C10_Witness ==
    /\ mounted
    /\ ~ext.supportLinearFiltering
    /\ tickCount >= 1
    /\ ResizedReally("dye")
    /\ sim.dye.height = 256

-----------------------------------------------------------------------------
(* Vocabulary of the numeric properties *)

\* the channels that carry the value of a field: velocity is a vec2, dye an
\* rgb colour, pressure, divergence and curl are scalars
Channels(f) ==
    CASE f = "velocity" -> 1..2
      [] f = "dye"      -> 1..3
      [] OTHER          -> 1..1

\* the textures of a field: both sides of a double-buffered one
TexturesOf(g, f) ==
    IF f \in DoubleFields THEN {Read(g[f]).texture, Write(g[f]).texture}
    ELSE {g[f].texture}

\* texture t holds zero in the channels cs of every texel
ZeroIn(g, t, cs) ==
    \A k \in 1..Len(g.content[t].px) : \A c \in cs : g.content[t].px[k][c] = 0

FieldZero(g, f) == \A t \in TexturesOf(g, f) : ZeroIn(g, t, Channels(f))

SolverFields == {"velocity", "pressure", "curl", "divergence"}

\* the handler that ran last was the call op (the first entry names the call)
Called(g, op) == g.trace # <<>> /\ g.trace[1].op = op

(* C11: a step(dt) with dt in [0, 1/60] on velocity, pressure, curl and       *)
(* divergence fields that are zero in every cell (as createFBO leaves them,  *)
(* no splat made) leaves the velocity, pressure, curl and divergence fields  *)
(* zero in every cell.                                                        *)
C11_ZeroFieldsStayZero ==
    [][ ( /\ opCount' = opCount + 1
          /\ Called(sim', "stepCall")
          /\ \A f \in SolverFields : FieldZero(sim, f) )
        => \A f \in SolverFields : FieldZero(sim', f) ]_vars

\* the first call on the fresh fields was a step with dt = 0.016666, and the
\* solver fields are zero after its passes
C11_Witness ==
    /\ opCount = 1
    /\ Called(sim, "stepCall")
    /\ sim.trace[1].dt = MaxDtMicros
    /\ sim.draws > 0
    /\ \A f \in SolverFields : FieldZero(sim, f)

-----------------------------------------------------------------------------
(* Vocabulary of the per-pass properties *)

IsPass(e) == e.op \in {"draw", "swap"}

\* a draw is named by its program, a swap by its field
Label(e) == IF e.op = "draw" THEN <<"draw", e.program>> ELSE <<"swap", e.field>>

\* the draws and swaps of the log from entry lo on, in order
PassesFrom(lo) == SelectSeq(SubSeq(Trace, lo, Len(Trace)), IsPass)

RECURSIVE Labels(_)
Labels(q) == IF q = <<>> THEN <<>> ELSE <<Label(Head(q))>> \o Labels(Tail(q))

RECURSIVE Repeat(_, _)
Repeat(q, n) == IF n <= 0 THEN <<>> ELSE q \o Repeat(q, n - 1)

\* the order of section 4.4 of the design, for n Jacobi iterations
ExpectedStepOrder(n) ==
    << <<"draw", "curl">>,
       <<"draw", "vorticity">>, <<"swap", "velocity">>,
       <<"draw", "divergence">>,
       <<"draw", "clear">>, <<"swap", "pressure">> >>
    \o Repeat(<< <<"draw", "pressure">>, <<"swap", "pressure">> >>, n)
    \o << <<"draw", "gradientSubtract">>, <<"swap", "velocity">>,
          <<"draw", "advection">>, <<"swap", "velocity">>,
          <<"draw", "advection">>, <<"swap", "dye">> >>

\* the field the texture t belongs to when the handler has ended
FieldOfTexture(t) ==
    IF t \in {Read(sim.velocity).texture, Write(sim.velocity).texture} THEN "velocity"
    ELSE IF t \in {Read(sim.dye).texture, Write(sim.dye).texture} THEN "dye"
    ELSE IF t \in {Read(sim.pressure).texture, Write(sim.pressure).texture} THEN "pressure"
    ELSE IF t = sim.divergence.texture THEN "divergence"
    ELSE IF t = sim.curl.texture THEN "curl"
    ELSE IF t = 0 THEN "screen"
    ELSE "none"

\* the field each draw of the step writes, by position among its draws
ExpectedStepTargets(n) ==
    <<"curl", "velocity", "divergence", "pressure">>
    \o Repeat(<<"pressure">>, n)
    \o <<"velocity", "velocity", "dye">>

IsDraw(e) == e.op = "draw"

\* the draws of the log from entry lo on
DrawsFrom(lo) == SelectSeq(SubSeq(Trace, lo, Len(Trace)), IsDraw)

(* C14: whatever the fields hold, step issues its passes in this order and   *)
(* no other: curl; vorticity, then velocity swap; divergence; pressure       *)
(* decay, then pressure swap; PRESSURE_ITERATIONS Jacobi passes, a pressure   *)
(* swap after each; gradient subtraction, then velocity swap; advection of   *)
(* velocity, then velocity swap; advection of dye, then dye swap.  Each draw  *)
(* writes a texture of the field of its pass, and a draw followed by a swap   *)
(* writes the member that the swap makes the read side.  In a tick the one    *)
(* display draw follows.                                                      *)
C14_StepPassOrder ==
    \A i \in TraceIdx :
       Trace[i].op = "step" =>
          LET n == config.PRESSURE_ITERATIONS
              passes == Labels(PassesFrom(i + 1))
              draws == DrawsFrom(i + 1)
              m == Len(ExpectedStepTargets(n))
          IN /\ SubSeq(passes, 1, Len(ExpectedStepOrder(n))) = ExpectedStepOrder(n)
             /\ passes \in { ExpectedStepOrder(n),
                              ExpectedStepOrder(n) \o << <<"draw", "display">> >> }
             /\ Len(draws) >= m
             /\ \A k \in 1..m :
                   FieldOfTexture(draws[k].target) = ExpectedStepTargets(n)[k]
             /\ \A k \in 1..(m - 1) :
                   (ExpectedStepTargets(n)[k] = ExpectedStepTargets(n)[k + 1])
                      => draws[k].target # draws[k + 1].target
             /\ draws[m].target = Read(sim.dye).texture
             /\ draws[m - 1].target = Read(sim.velocity).texture
             /\ draws[m - 3].target = Read(sim.pressure).texture

\* the second tick of a run has stepped, on fields the first tick had written
C14_Witness ==
    /\ tickCount = 2
    /\ \E i \in TraceIdx : Trace[i].op = "step"
    /\ \E i \in TraceIdx : /\ Trace[i].op = "draw"
                           /\ Trace[i].program = "curl"
                           /\ \A s \in DOMAIN Trace[i].read : Trace[i].read[s] # Cleared

(* C15: in every draw of inject, step, resize and display, with the texture  *)
(* units as the statements before it left them, the texture written is none  *)
(* of the textures the program in use samples through its sampler uniforms;  *)
(* every sampler reads an allocated texture.                                  *)
C15_NoFeedbackLoop ==
    \A i \in TraceIdx :
       Trace[i].op = "draw" =>
          /\ Trace[i].target \notin Trace[i].sampled
          /\ Trace[i].sampled \subseteq sim.live
          /\ Trace[i].sampled # {}

\* a tick that resized (copy draws), injected, stepped and displayed
C15_Witness ==
    /\ tickCount >= 1
    /\ \A p \in {"copy", "splat", "pressure", "advection", "display"} :
          \E i \in TraceIdx : Trace[i].op = "draw" /\ Trace[i].program = p

(* C16: within one step every pass samples what the pass before it on that   *)
(* field wrote in this step: vorticity reads the curl just computed;          *)
(* divergence and gradient subtraction read the velocity vorticity wrote; the *)
(* first Jacobi pass reads the decayed pressure and each later one the        *)
(* pressure of the iteration before, all of them the divergence of this step; *)
(* gradient subtraction reads the last Jacobi output; self-advection reads    *)
(* the velocity gradient subtraction wrote, as field and as source; dye       *)
(* advection reads the velocity self-advection wrote.  Curl and vorticity     *)
(* read the velocity the step started from.                                   *)
C16_PassesReadLatest ==
    \A i \in TraceIdx :
       Trace[i].op = "step" =>
          LET n == config.PRESSURE_ITERATIONS
              d == DrawsFrom(i + 1)
          IN /\ Len(d) >= 7 + n
             /\ d[2].read["uCurl"] = d[1].data
             /\ d[2].read["uVelocity"] = d[1].read["uVelocity"]
             /\ d[3].read["uVelocity"] = d[2].data
             /\ \A k \in 1..n :
                   /\ d[4 + k].read["uPressure"] = d[3 + k].data
                   /\ d[4 + k].read["uDivergence"] = d[3].data
             /\ d[5 + n].read["uPressure"] = d[4 + n].data
             /\ d[5 + n].read["uVelocity"] = d[2].data
             /\ d[6 + n].read["uVelocity"] = d[5 + n].data
             /\ d[6 + n].read["uSource"] = d[5 + n].data
             /\ d[7 + n].read["uVelocity"] = d[6 + n].data
             /\ d[7 + n].read["uSource"] # d[6 + n].data
             \* no two passes of the step wrote the same version
             /\ \A j, k \in 1..(7 + n) : j # k => d[j].data # d[k].data

\* a second tick without resize has stepped: the pressure decay read what the
\* last Jacobi pass of the first tick had written
C16_Witness ==
    /\ tickCount = 2
    /\ Trace[2].op = "resizeCanvas" /\ ~Trace[2].changed
    /\ \E i \in TraceIdx : /\ Trace[i].op = "draw"
                           /\ Trace[i].program = "clear"
                           /\ Trace[i].read["uTexture"] # Cleared
    /\ \E i \in TraceIdx : /\ Trace[i].op = "draw"
                           /\ Trace[i].program = "gradientSubtract"

\* the canvas sizes resizeCanvas can find, other than the current one
OtherCanvasSizes ==
    { ScaledSize(c, r) : c \in ClientSizes, r \in PixelRatios } \ {canvas}

\* initFramebuffers, run because the canvas got the size cv, leaves the read
\* side of every field of the set holding what it held before
ReallocationKeeps(fields) ==
    mounted =>
      \A cv \in OtherCanvasSizes :
         LET g == initFramebuffers(sim, config, cv)
         IN \A f \in fields :
               ContentOf(g, Read(g[f]).texture) = ContentOf(sim, Read(sim[f]).texture)

\* initFramebuffers makes each field of the set a new cleared target
ReallocationClears(fields) ==
    mounted =>
      \A cv \in OtherCanvasSizes :
         LET g == initFramebuffers(sim, config, cv)
         IN \A f \in fields :
               /\ g[f].texture \notin sim.live
               /\ ContentOf(g, g[f].texture) = Cleared

(* C17: when the canvas pixel dimensions change between ticks, velocity, dye *)
(* and pressure each keep the contents of their read side across the         *)
(* reallocation, and only divergence and curl are recreated cleared.         *)
C17_ReallocationKeepsDoubleFields ==
    /\ ReallocationKeeps(DoubleFields)
    /\ ReallocationClears(SingleFields)

\* the entries of the log with the given op
At(op) == { i \in TraceIdx : Trace[i].op = op }

\* the draws of the log made with one of the programs
DrawsOf(ps) == { i \in TraceIdx : Trace[i].op = "draw" /\ Trace[i].program \in ps }

\* the entries initFramebuffers and the pool functions under it leave
Reallocations ==
    At("alloc") \cup At("createDoubleFBO") \cup At("resizeDoubleFBO")
       \cup At("createFBO") \cup DrawsOf({"copy"})

StepPrograms == {"curl", "vorticity", "divergence", "clear", "pressure",
                 "gradientSubtract", "advection"}

(* C18: a tick does, in this order and once each: compute the clamped dt;    *)
(* compare the canvas dimensions and, exactly when they changed, reallocate   *)
(* the fields; autoSplat with that dt; step with that dt; the display draw;   *)
(* request the next frame.  No draw comes before the resize check, the        *)
(* reallocation comes before the first injection, and every field exists      *)
(* from the end of the effect body on, so before the first step.              *)
C18_TickOrder ==
    /\ mounted => \A f \in DoubleFields \cup SingleFields : sim[f] # Undefined
    /\ tickCount >= 1 =>
          /\ mounted
          /\ At("calcDeltaTime") = {1}
          /\ At("resizeCanvas") = {2}
          /\ At("requestAnimationFrame") = {Len(Trace)}
          /\ DrawsOf({"display"}) = {Len(Trace) - 1}
          /\ Cardinality(At("autoSplat")) = 1
          /\ Cardinality(At("step")) = 1
          /\ \A a \in At("autoSplat"), s \in At("step") :
                /\ 2 < a /\ a < s /\ s < Len(Trace) - 1
                /\ Trace[a].dt = Trace[1].dt
                /\ Trace[s].dt = Trace[1].dt
                /\ Trace[1].dt * 60 <= 1000000
                /\ \A i \in Reallocations : 2 < i /\ i < a
                /\ (Reallocations # {}) <=> Trace[2].changed
                /\ \A i \in DrawsOf({"splat"}) : a < i /\ i < s
                /\ Cardinality(DrawsOf({"splat"})) = 4
                /\ \A i \in DrawsOf(StepPrograms) : s < i /\ i < Len(Trace) - 1
                /\ DrawsOf(Programs) \cap 1..a = DrawsOf({"copy"})

\* a tick that found the canvas resized has run to its end
C18_Witness ==
    /\ tickCount >= 1
    /\ Trace[2].op = "resizeCanvas" /\ Trace[2].changed
    /\ DrawsOf({"copy"}) # {}
    /\ Trace[Len(Trace)].op = "requestAnimationFrame"
    /\ Trace[1].dt = 16000

(* C19: from the end of the effect body until the cleanup, at most one       *)
(* animation-frame callback is pending and animationFrameRef holds its        *)
(* handle; before the effect body none is pending.  A tick consumes the       *)
(* pending callback and requests exactly one frame, as the last thing it      *)
(* does, and animationFrameRef gets the handle of that request.               *)
C19_OnePendingFrame ==
    /\ [](/\ ~mounted => pending = {}
          /\ (mounted /\ teardowns = 0) =>
                /\ Cardinality(pending) <= 1
                /\ pending \subseteq {animationFrameRef}
                /\ animationFrameRef # 0
                /\ animationFrameRef = nextHandle - 1)
    /\ [][tickCount' = tickCount + 1 =>
             /\ pending = {animationFrameRef}
             /\ nextHandle \notin pending
             /\ pending' = {nextHandle}
             /\ animationFrameRef' = nextHandle
             /\ nextHandle' = nextHandle + 1
             /\ LET t == sim'.trace
                IN /\ t[Len(t)] = [op |-> "requestAnimationFrame",
                                   handle |-> nextHandle]
                   /\ \A i \in 1..(Len(t) - 1) :
                         t[i].op # "requestAnimationFrame"]_vars

\* two ticks have run and the loop is armed for the third
C19_Witness ==
    /\ mounted /\ teardowns = 0
    /\ tickCount = 2
    /\ pending = {3}
    /\ animationFrameRef = 3
    /\ Trace[Len(Trace)].op = "requestAnimationFrame"
    /\ Trace[Len(Trace)].handle = 3

-----------------------------------------------------------------------------
(* Vocabulary of the splat properties *)

\* column and row of the texel with index k (row order) of a w-wide texture
Col(k, w) == (k - 1) % w
Row(k, w) == (k - 1) \div w

\* the square of the distance between the centre of texel k of a w by h grid
\* and the point (x, y) of the canvas, in two-hundredths of a texel
Dist2(k, w, h, x, y) ==
    LET ex == (2 * Col(k, w) + 1) * Unit - 2 * w * x
        ey == (2 * Row(k, w) + 1) * Unit - 2 * h * y
    IN ex * ex + ey * ey

\* the weight, in ten-thousandths, the splat uniforms of g give the texel k
WeightAt(g, w, h, k) == SplatWeight(g, w, h, Col(k, w), Row(k, w))

\* what the read side of field f holds
ReadOf(g, f) == g.content[Read(g[f]).texture]

\* the read side of f in g2 holds, in the channels of f, what the read side
\* of f held in g plus the weight times the amount
Added(g, g2, f, amount) ==
    /\ ReadOf(g2, f).w = ReadOf(g, f).w
    /\ ReadOf(g2, f).h = ReadOf(g, f).h
    /\ \A k \in 1..Len(ReadOf(g, f).px) : \A c \in Channels(f) :
          ReadOf(g2, f).px[k][c] =
             ReadOf(g, f).px[k][c]
             + MulDiv(amount[c], WeightAt(g2, ReadOf(g, f).w, ReadOf(g, f).h, k),
                      ExpScale)

\* the weight is between 0 and 1, positive somewhere, and a texel no farther
\* from (x, y) than another has no smaller weight; the texels are square on
\* the canvas cv, so distances in texels are distances on the canvas
GaussianShape(g2, w, h, cv, x, y) ==
    /\ cv.width * h = cv.height * w
    /\ \A a \in 1..(w * h) : WeightAt(g2, w, h, a) \in 0..ExpScale
    /\ \E a \in 1..(w * h) : WeightAt(g2, w, h, a) > 0
    /\ \A a, b \in 1..(w * h) :
          Dist2(a, w, h, x, y) <= Dist2(b, w, h, x, y)
             => WeightAt(g2, w, h, a) >= WeightAt(g2, w, h, b)

\* the call drew once into the write side of velocity and swapped velocity,
\* then drew once into the write side of dye and swapped dye, and nothing else
OneWriteThenSwapEach(g, g2) ==
    LET ps == SelectSeq(g2.trace, IsPass)
    IN /\ Len(ps) = 4
       /\ ps[1].op = "draw" /\ ps[1].program = "splat"
       /\ ps[1].target = Write(g.velocity).texture
       /\ ps[2] = [op |-> "swap", field |-> "velocity"]
       /\ ps[3].op = "draw" /\ ps[3].program = "splat"
       /\ ps[3].target = Write(g.dye).texture
       /\ ps[4] = [op |-> "swap", field |-> "dye"]
       /\ Read(g2.velocity) = Write(g.velocity) /\ Write(g2.velocity) = Read(g.velocity)
       /\ Read(g2.dye) = Write(g.dye) /\ Write(g2.dye) = Read(g.dye)

\* field f has the members it had and they hold what they held
Untouched(g, g2, f) ==
    /\ g2[f] = g[f]
    /\ \A t \in TexturesOf(g, f) : g2.content[t] = g.content[t]

\* red is positive at a texel nearest to (x, y) and no texel has more red than
\* a texel nearer to (x, y); green and blue are zero everywhere
RedConcentratedAt(t, x, y) ==
    /\ \A k \in 1..Len(t.px) : t.px[k][2] = 0 /\ t.px[k][3] = 0
    /\ \E a \in 1..Len(t.px) :
          /\ t.px[a][1] > 0
          /\ \A b \in 1..Len(t.px) : Dist2(a, t.w, t.h, x, y) <= Dist2(b, t.w, t.h, x, y)
    /\ \A a, b \in 1..Len(t.px) :
          Dist2(a, t.w, t.h, x, y) <= Dist2(b, t.w, t.h, x, y)
             => t.px[a][1] >= t.px[b][1]

(* C12: splat(x, y, dx, dy, color) is additive: after it velocity.read holds  *)
(* what velocity.read held plus the Gaussian weight times (dx, dy) and       *)
(* dye.read holds what dye.read held plus the same weight times color, the   *)
(* weight being largest nearest to (x, y) and not growing with distance; it  *)
(* makes one write-then-swap on velocity and one on dye and leaves pressure, *)
(* divergence and curl as they were; color (1, 0, 0) at (0.5, 0.5) on a zero *)
(* dye field gives red that is positive and largest at the point.            *)
C12_SplatAdditive ==
    [][ (opCount' = opCount + 1 /\ Called(sim', "splat")) =>
        LET c == sim'.trace[1]
            w == ReadOf(sim, "velocity").w
            h == ReadOf(sim, "velocity").h
        IN /\ Added(sim, sim', "velocity", <<c.dx, c.dy>>)
           /\ Added(sim, sim', "dye", c.color)
           /\ GaussianShape(sim', w, h, canvas, c.x, c.y)
           /\ OneWriteThenSwapEach(sim, sim')
           /\ \A f \in {"pressure", "divergence", "curl"} : Untouched(sim, sim', f)
           /\ ( /\ c.color = <<Unit, 0, 0>>
                /\ c.x = Unit \div 2 /\ c.y = Unit \div 2
                /\ ZeroIn(sim, Read(sim.dye).texture, Channels("dye")) )
              => RedConcentratedAt(ReadOf(sim', "dye"), c.x, c.y) ]_vars

\* a splat of red at (0.5, 0.5) drawn with blending enabled (after a render):
\* dye.read holds positive red, and more at one texel than at another
C12_Witness ==
    /\ Called(sim, "splat")
    /\ sim.trace[1].color = <<Unit, 0, 0>>
    /\ sim.trace[1].x = Unit \div 2 /\ sim.trace[1].y = Unit \div 2
    /\ \E i \in 1..Len(sim.trace) : sim.trace[i].op = "draw" /\ sim.trace[i].blend
    /\ \E a, b \in 1..Len(ReadOf(sim, "dye").px) :
          /\ ReadOf(sim, "dye").px[a][1] > ReadOf(sim, "dye").px[b][1]
          /\ ReadOf(sim, "dye").px[b][1] >= 0
    /\ \E a, b \in 1..Len(ReadOf(sim, "velocity").px) :
          /\ ReadOf(sim, "velocity").px[a] # ReadOf(sim, "velocity").px[b]
          /\ ReadOf(sim, "velocity").px[a] # ZeroTexel
          /\ ReadOf(sim, "velocity").px[b] # ZeroTexel

\* the draws of the vorticity pass in the log of the last call
VorticityDraws ==
    { i \in 1..Len(sim.trace) :
         sim.trace[i].op = "draw" /\ sim.trace[i].program = "vorticity" }

(* C13: right after the vorticity-confinement pass of step, both components  *)
(* of every velocity cell are between -1000 and 1000, whatever the curl      *)
(* field, the velocity before the pass and dt were: the pass writes such     *)
(* values and the swap that follows makes them velocity.read.                *)
C13_VorticityClamped ==
    sim.numeric =>
       \A i \in VorticityDraws :
          /\ i < Len(sim.trace)
          /\ sim.trace[i + 1] = [op |-> "swap", field |-> "velocity"]
          /\ \A k \in 1..Len(sim.trace[i].data.px) : \A c \in Channels("velocity") :
                /\ sim.trace[i].data.px[k][c] >= -VelocityLimit * Unit
                /\ sim.trace[i].data.px[k][c] <= VelocityLimit * Unit

\* a vorticity pass with dt > 0 on a curl field that is not zero, at a cell
\* whose velocity was above 1000 before the pass and is 1000 after it
C13_Witness ==
    /\ sim.numeric
    /\ Called(sim, "stepCall")
    /\ sim.trace[1].dt > 0
    /\ \E i \in VorticityDraws :
          /\ \E k \in 1..Len(sim.trace[i].read["uCurl"].px) :
                sim.trace[i].read["uCurl"].px[k][1] # 0
          /\ \E k \in 1..Len(sim.trace[i].data.px) :
                /\ sim.trace[i].read["uVelocity"].px[k][1] > VelocityLimit * Unit
                /\ sim.trace[i].data.px[k][1] = VelocityLimit * Unit

-----------------------------------------------------------------------------
(* C21: a call of Material.setKeywords with a keyword list an earlier call   *)
(* was given compiles no shader and links no program; a call that resolves   *)
(* to the program that is already active leaves activeProgram, the program   *)
(* cache and the uniforms table as they were; getUniforms runs in a call     *)
(* only if the call changes the active program.                              *)
C21_SetKeywordsMemoized ==
    [][ material'.calls = material.calls + 1 =>
        LET keywords == displayKeywords'
            program == material'.programs[KeywordsHash(keywords, 1)]
        IN /\ keywords \in material.seen =>
                /\ material'.defines = material.defines
                /\ material'.programs = material.programs
           /\ program = material.activeProgram =>
                /\ material'.activeProgram = material.activeProgram
                /\ material'.programs = material.programs
                /\ material'.uniformsOf = material.uniformsOf
                /\ material'.uniformReads = material.uniformReads
           /\ material'.uniformReads # material.uniformReads =>
                /\ material'.activeProgram # material.activeProgram
                /\ material'.uniformReads = material.uniformReads + 1
                /\ material'.uniformsOf = material'.activeProgram ]_vars

\* three calls, the second and the third with the list of the first: one
\* program was compiled and getUniforms ran once
C21_Witness ==
    /\ material.calls = 3
    /\ Cardinality(material.seen) = 1
    /\ Len(material.defines) = 1
    /\ material.uniformReads = 1
    /\ material.activeProgram = 1

-----------------------------------------------------------------------------
(* C22: when shaders fail to compile or programs fail to link, nothing is    *)
(* thrown: the effect body runs to its end with every program object made,  *)
(* it starts the frame loop, and every tick requests the next frame, so     *)
(* until the cleanup runs exactly one callback is pending, the one          *)
(* requested last.                                                           *)
C22_CompileFailureNotFatal ==
    /\ ~fatal
    /\ mounted =>
          /\ sim.programs = Programs
          /\ sim.failed \in FailureSets
          /\ teardowns = 0 =>
                /\ pending = {animationFrameRef}
                /\ animationFrameRef = tickCount + 1

\* two ticks have run on a context where the splat program did not link: the
\* first tick drew nothing for the splats, and a frame is pending
C22_Witness ==
    /\ mounted
    /\ sim.failed = {"splat"}
    /\ tickCount = 2
    /\ teardowns = 0
    /\ pending = {3}
    /\ \A i \in TraceIdx : Trace[i].op = "draw" => Trace[i].program # "splat"

-----------------------------------------------------------------------------
(* C23: when webgl2, webgl and experimental-webgl all give no context, the   *)
(* effect body fails before any GL command: the component is never mounted, *)
(* no program is linked, no render target is created, nothing is drawn, and *)
(* no animation frame is requested or run, then or later.                   *)
C23_NoContextIsFatal ==
    fatal =>
       /\ ~mounted
       /\ sim = EmptySim
       /\ sim.live = {} /\ sim.draws = 0 /\ sim.programs = {}
       /\ pending = {}
       /\ animationFrameRef = 0
       /\ nextHandle = 1
       /\ tickCount = 0

\* the effect body has thrown out of getWebGLContext
C23_Witness == fatal /\ ~mounted /\ loading

-----------------------------------------------------------------------------
(* C24: every pass that writes a field (the splat passes and the passes of   *)
(* step, in the first tick and in every later one) is drawn with blending   *)
(* disabled; a draw with blending enabled is the display pass drawing to    *)
(* the screen.                                                               *)
C24_FieldPassesUnblended ==
    \A i \in TraceIdx :
       Trace[i].op = "draw" =>
          /\ Trace[i].target # Screen.texture => ~Trace[i].blend
          /\ Trace[i].blend =>
                Trace[i].program = "display" /\ Trace[i].target = Screen.texture

-----------------------------------------------------------------------------
\* the textures the field variables dye, velocity, divergence, curl and
\* pressure hold
FieldTextures(g) == UNION { TexturesOf(g, f) : f \in DoubleFields \cup SingleFields }

(* C25: the number of live render targets (textures with their framebuffers, *)
(* created and not deleted) stays bounded by a constant, however often the  *)
(* canvas dimensions change and initFramebuffers runs: the constant is the  *)
(* number of targets the five fields hold.                                   *)
C25_LiveTargetsBounded ==
    mounted => Cardinality(sim.live) <= Cardinality(FieldTextures(sim))

-----------------------------------------------------------------------------
(* The loaders of App as actions: the calls, the settling of a fetch and the *)
(* firing of a backoff timer                                                 *)

\* at most this many submissions of the form
MaxSubmits == 2

\* at most this many submissions of the form in the runs in which every
\* fetch settles and every timer fires
MaxFairSubmits == 1

\* the state of the fluid background, which the loaders leave alone
fluidVars == <<mounted, fatal, ext, config, canvas, displayKeywords, lastUpdateTime,
               animationFrameRef, pending, nextHandle, tickCount, teardowns,
               loading, sim, material, opCount>>

CallIds == 1..Len(app.calls)
Submissions == { i \in CallIds : app.calls[i].loader = "handleSubmit" }

\* useEffect(() => { fetchDailyMix(); }, [fetchDailyMix]) after the first render
FetchDailyMix ==
    /\ \A i \in CallIds : app.calls[i].loader # "fetchDailyMix"
    /\ app' = fetchDailyMix(app)
    /\ UNCHANGED fluidVars

\* the form is submitted with the duration given; the submit button is
\* enabled whenever the duration is within 1..6
Submit(duration, max) ==
    /\ Cardinality(Submissions) < max
    /\ ~(duration < 1 \/ duration > 6)
    /\ app' = handleSubmit(app, duration)
    /\ UNCHANGED fluidVars

HandleSubmit(duration) == Submit(duration, MaxSubmits)

\* the fetch of call i gives an ok response whose body parses
FetchResolves(i) ==
    /\ app.calls[i].pc = "fetch"
    /\ app' = Resolved(app, i, Json(app.calls[i].loader, app.calls[i].duration))
    /\ UNCHANGED fluidVars

\* the fetch of call i rejects, or its response is not ok
FetchRejects(i, message) ==
    /\ app.calls[i].pc = "fetch"
    /\ app' = Rejected(app, i, message)
    /\ UNCHANGED fluidVars

\* the setTimeout callback of call i runs
TimerFires(i) ==
    /\ app.calls[i].pc = "wait"
    /\ MayFire(app, i)
    /\ app' = TimedOut(app, i)
    /\ UNCHANGED fluidVars

LoaderNext ==
    \/ FetchDailyMix
    \/ \E duration \in Durations : HandleSubmit(duration)
    \/ \E i \in CallIds : FetchResolves(i)
    \/ \E i \in CallIds, message \in Failures : FetchRejects(i, message)
    \/ \E i \in CallIds : TimerFires(i)

\* App under any order of submissions, fetch results and timers
LoaderSpec == Init /\ [][LoaderNext]_vars

LoaderFairNext ==
    \/ FetchDailyMix
    \/ \E duration \in Durations : Submit(duration, MaxFairSubmits)
    \/ \E i \in CallIds : FetchResolves(i)
    \/ \E i \in CallIds, message \in Failures : FetchRejects(i, message)
    \/ \E i \in CallIds : TimerFires(i)

\* every fetch settles and every timer fires
LoaderFairSpec ==
    /\ Init /\ [][LoaderFairNext]_vars
    /\ \A i \in 1..(MaxFairSubmits + 1) :
          /\ WF_vars(i \in CallIds /\
                     (FetchResolves(i) \/ \E message \in Failures : FetchRejects(i, message)))
          /\ WF_vars(i \in CallIds /\ TimerFires(i))

-----------------------------------------------------------------------------
\* the positions of a loader call: its fetch calls, its waits and what it
\* ended with
CallInBounds(c) ==
    /\ c.fetches <= 3
    /\ c.waits \in {<<>>, <<1000>>, <<1000, 2000>>}
    /\ Len(c.waits) = c.currentRetry \/ (c.pc = "done" /\ c.err # Null)
    /\ c.pc = "fetch" => c.fetches = c.currentRetry + 1
    /\ c.pc = "wait" => c.fetches = c.currentRetry
    /\ c.pc = "done" =>
          \/ /\ c.data = Json(c.loader, c.duration) /\ c.err = Null
             /\ c.fetches = c.currentRetry + 1
          \/ /\ c.data = Null /\ c.err # Null
             /\ c.fetches = 3 /\ c.currentRetry = 3 /\ c.waits = <<1000, 2000>>

\* call i ends in this step
Terminates(i) ==
    /\ i \in CallIds
    /\ app.calls[i].pc # "done"
    /\ app'.calls[i].pc = "done"

\* what the step in which the call c ends writes: loading false and either
\* the data or the error message, the other one left as it was
RecordsOneOutcome(c, S) ==
    /\ app'[S.loading] = FALSE
    /\ IF c.err = Null
       THEN app'[S.data] = c.data /\ app'[S.error] = app[S.error]
       ELSE /\ app'[S.error] = ErrorMessage(c.loader, c.err.message)
            /\ app'[S.data] = app[S.data]

\* the six useState values of App
AppState(a) ==
    <<a.dailyMixes, a.isMixLoading, a.mixError,
      a.optimalWindow, a.isWindowLoading, a.windowError>>

(* C26: a call of fetchDailyMix or of handleSubmit issues at most 3 fetches,  *)
(* waits 1000 ms after its first failed attempt and 2000 ms after its        *)
(* second, and ends by setting its loading flag to false together with       *)
(* exactly one outcome: the data of its first successful attempt, or the     *)
(* error message after its third failure. A failed attempt that is retried   *)
(* and a timer that fires write no state. When every fetch settles and       *)
(* every timer fires, every call ends.                                       *)
C26_LoadersRetryThenEnd ==
    /\ [](\A i \in CallIds : CallInBounds(app.calls[i]))
    /\ [][ /\ \A i \in 1..(MaxFairSubmits + 1) :
                Terminates(i) =>
                   RecordsOneOutcome(app'.calls[i], Setters(app'.calls[i].loader))
           /\ ( /\ Len(app'.calls) = Len(app.calls)
                /\ \A i \in 1..(MaxFairSubmits + 1) : ~Terminates(i) )
              => AppState(app') = AppState(app) ]_vars
    /\ \A i \in 1..(MaxFairSubmits + 1) :
          (i \in CallIds) ~> (i \in CallIds /\ app.calls[i].pc = "done")

\* fetchDailyMix has ended with the data at its second attempt, after one
\* wait of 1000 ms, and a submission has ended with the error after three
\* failed attempts and waits of 1000 and 2000 ms
C26_Witness ==
    /\ Len(app.calls) = 2
    /\ app.calls[1].loader = "fetchDailyMix"
    /\ app.calls[1].pc = "done" /\ app.calls[1].fetches = 2
    /\ app.calls[1].waits = <<1000>>
    /\ app.dailyMixes = Json("fetchDailyMix", 0) /\ app.mixError = Null
    /\ ~app.isMixLoading
    /\ app.calls[2].loader = "handleSubmit"
    /\ app.calls[2].pc = "done" /\ app.calls[2].fetches = 3
    /\ app.calls[2].waits = <<1000, 2000>>
    /\ app.windowError = ErrorMessage("handleSubmit", "Failed to fetch")
    /\ app.optimalWindow = Null
    /\ ~app.isWindowLoading

-----------------------------------------------------------------------------
\* the submission started last
LastSubmission == CHOOSE i \in Submissions : \A j \in Submissions : j <= i

\* what a submission that has ended leaves to be displayed
OutcomeOf(c) ==
    IF c.err = Null
    THEN [window |-> c.data, error |-> Null]
    ELSE [window |-> Null, error |-> ErrorMessage(c.loader, c.err.message)]

(* C27: when submissions of the form overlap, isWindowLoading stays true     *)
(* until the last of them has ended, and once all have ended optimalWindow   *)
(* and windowError, and with them what OptimalWindowResult renders, are the  *)
(* outcome of the submission started last, not of an earlier one.            *)
C27_LatestSubmissionWins ==
    /\ (\E i \in Submissions : app.calls[i].pc # "done") => app.isWindowLoading
    /\ (Submissions # {} /\ \A i \in Submissions : app.calls[i].pc = "done") =>
          /\ app.optimalWindow = OutcomeOf(app.calls[LastSubmission]).window
          /\ app.windowError = OutcomeOf(app.calls[LastSubmission]).error
          /\ OptimalWindowResult(app.optimalWindow, app.isWindowLoading,
                                 app.windowError)
                = OptimalWindowResult(OutcomeOf(app.calls[LastSubmission]).window,
                                      FALSE,
                                      OutcomeOf(app.calls[LastSubmission]).error)
====
